---- MODULE Spec2Model ----
(***************************************************************************)
(* Vault manager of obsidian-ai-agent (src/app/shared/vault/manager.py).   *)
(*                                                                         *)
(* Text (file contents, path arguments, file names) is modelled by TLA+    *)
(* strings and computed character by character.  A filesystem path is the  *)
(* sequence of its segments; the filesystem is a function from the paths   *)
(* that exist to their entries.  Every await of the manager is one step    *)
(* of the calling process, so that concurrent calls interleave exactly at  *)
(* the filesystem accesses.                                                *)
(***************************************************************************)
EXTENDS Integers, Sequences, FiniteSets, TLC

(***************************************************************************)
(* Strings                                                                 *)
(***************************************************************************)
Ch(s, i) == SubSeq(s, i, i)

StartsWith(s, pre) == Len(pre) <= Len(s) /\ SubSeq(s, 1, Len(pre)) = pre

EndsWith(s, suf) ==
  Len(suf) <= Len(s) /\ SubSeq(s, Len(s) - Len(suf) + 1, Len(s)) = suf

\* Python's `sub in s`
Contains(s, sub) ==
  \E i \in 1..(Len(s) - Len(sub) + 1) : SubSeq(s, i, i + Len(sub) - 1) = sub

IsSpace(c) == c \in {" ", "\n"}

LowerCh(c) ==
  CASE c = "A" -> "a"
    [] c = "B" -> "b"
    [] c = "X" -> "x"
    [] OTHER -> c

RECURSIVE Lower(_)
Lower(s) == IF s = "" THEN "" ELSE LowerCh(Ch(s, 1)) \o Lower(Tail(s))

RECURSIVE LStripCh(_, _)
LStripCh(s, cs) ==
  IF s # "" /\ Ch(s, 1) \in cs THEN LStripCh(Tail(s), cs) ELSE s

RECURSIVE RStripCh(_, _)
RStripCh(s, cs) ==
  IF s # "" /\ Ch(s, Len(s)) \in cs
  THEN RStripCh(SubSeq(s, 1, Len(s) - 1), cs)
  ELSE s

\* Python's str.strip()
Strip(s) == LStripCh(RStripCh(s, {" ", "\n"}), {" ", "\n"})

\* Python's s.count(c) for a one-character c
RECURSIVE Count(_, _)
Count(s, c) ==
  IF s = "" THEN 0
  ELSE (IF Ch(s, 1) = c THEN 1 ELSE 0) + Count(Tail(s), c)

\* Position of the first c at or after i, Len(s) + 1 when there is none
RECURSIVE Find(_, _, _)
Find(s, c, i) ==
  IF i > Len(s) THEN Len(s) + 1
  ELSE IF Ch(s, i) = c THEN i
  ELSE Find(s, c, i + 1)

\* Python's s.split(c) for a one-character c
RECURSIVE Split(_, _)
Split(s, c) ==
  LET k == Find(s, c, 1)
  IN  IF k > Len(s) THEN <<s>>
      ELSE <<SubSeq(s, 1, k - 1)>> \o Split(SubSeq(s, k + 1, Len(s)), c)

RECURSIVE Join(_, _)
Join(ss, c) ==
  IF ss = <<>> THEN ""
  ELSE IF Len(ss) = 1 THEN ss[1]
  ELSE ss[1] \o c \o Join(Tail(ss), c)

IsPrefix(a, b) == Len(a) <= Len(b) /\ SubSeq(b, 1, Len(a)) = a

Last(q) == q[Len(q)]

Front(q) == SubSeq(q, 1, Len(q) - 1)

\* the characters of the model in the order of their code points
Ascii ==
  "\n #-./0123456789ABCDEFGHIJKLMNOPQRSTUVWXYZ[]_abcdefghijklmnopqrstuvwxyz{|}"

IsLetter(c) ==
  /\ Len(c) = 1
  /\ Find(Ascii, c, 1) \in (Find(Ascii, "A", 1)..Find(Ascii, "Z", 1))
                          \cup (Find(Ascii, "a", 1)..Find(Ascii, "z", 1))

\* Python's a < b on strings
RECURSIVE StrLess(_, _)
StrLess(a, b) ==
  IF b = "" THEN FALSE
  ELSE IF a = "" THEN TRUE
  ELSE IF Ch(a, 1) = Ch(b, 1) THEN StrLess(Tail(a), Tail(b))
  ELSE Find(Ascii, Ch(a, 1), 1) < Find(Ascii, Ch(b, 1), 1)

\* the sort keys the manager uses: the length of the path, or the name
Before(x, y, key) ==
  IF key = "len" THEN Len(x.path) < Len(y.path) ELSE StrLess(x.name, y.name)

\* list.sort(key=...): x goes behind the last element that is not after it,
\* so that elements with equal keys keep their order
RECURSIVE Insert(_, _, _)
Insert(sorted, x, key) ==
  IF sorted = <<>> THEN <<x>>
  ELSE IF Before(x, Last(sorted), key)
       THEN Append(Insert(Front(sorted), x, key), Last(sorted))
  ELSE Append(sorted, x)

RECURSIVE Sorted(_, _)
Sorted(q, key) ==
  IF q = <<>> THEN <<>> ELSE Insert(Sorted(Front(q), key), Last(q), key)

\* sorted(set of strings)
RECURSIVE SortedSet(_)
SortedSet(S) ==
  IF S = {} THEN <<>>
  ELSE LET m == CHOOSE x \in S : \A y \in S \ {x} : StrLess(x, y)
       IN  <<m>> \o SortedSet(S \ {m})

\* the orders in which the elements of a set can be listed
Orders(S) ==
  {q \in [1..Cardinality(S) -> S] :
     \A i, j \in 1..Cardinality(S) : q[i] = q[j] => i = j}

Range(q) == {q[i] : i \in 1..Len(q)}

(***************************************************************************)
(* Paths (pathlib.PurePosixPath / Path.resolve on a tree without symbolic  *)
(* links: the manager never creates one)                                   *)
(***************************************************************************)
\* the resolved vault root, self.vault_path
VaultRoot == <<"srv", "vault">>

\* the segments PurePosixPath keeps of a path string: no empty ones, no "."
RECURSIVE KeepSegs(_)
KeepSegs(q) ==
  IF q = <<>> THEN <<>>
  ELSE IF q[1] \in {"", "."} THEN KeepSegs(Tail(q))
  ELSE <<q[1]>> \o KeepSegs(Tail(q))

Segs(path) == KeepSegs(Split(path, "/"))

IsAbsolute(path) == StartsWith(path, "/")

\* self.vault_path / path : an absolute right operand replaces the left one
JoinVault(path) ==
  IF IsAbsolute(path) THEN Segs(path) ELSE VaultRoot \o Segs(path)

\* Path.resolve(): ".." steps to the parent, the parent of "/" is "/"
RECURSIVE Resolve(_, _)
Resolve(done, todo) ==
  IF todo = <<>> THEN done
  ELSE IF todo[1] = ".."
       THEN Resolve(IF done = <<>> THEN <<>> ELSE Front(done), Tail(todo))
       ELSE Resolve(Append(done, todo[1]), Tail(todo))

PathTraversalError == "PathTraversalError"

\* what a call yields: a value, or the error it raises
Ok(v) == [err |-> "", val |-> v]

Raise(e) == [err |-> e, val |-> <<>>]

\* a validate_path that resolves and does not look where the result lies
validate_path_unchecked(path) ==
  IF path = "" THEN Ok(VaultRoot) ELSE Ok(Resolve(<<>>, JoinVault(path)))

validate_path(path) ==
  IF path = "" THEN Ok(VaultRoot)
  ELSE LET full_path == Resolve(<<>>, JoinVault(path))
       IN  IF ~IsPrefix(VaultRoot, full_path)
           THEN Raise(PathTraversalError)
           ELSE Ok(full_path)

\* Path.name, Path.parent, Path.stem, Path.suffix, Path.with_suffix
Name(p) == IF p = <<>> THEN "" ELSE Last(p)

Parent(p) == IF p = <<>> THEN <<>> ELSE Front(p)

RECURSIVE RFind(_, _, _)
RFind(s, c, i) ==
  IF i < 1 THEN 0 ELSE IF Ch(s, i) = c THEN i ELSE RFind(s, c, i - 1)

\* the suffix of a file name: from its last dot, unless that dot is the
\* first or the last character of the name
Suffix(name) ==
  LET i == RFind(name, ".", Len(name))
  IN  IF 1 < i /\ i < Len(name) THEN SubSeq(name, i, Len(name)) ELSE ""

Stem(name) == SubSeq(name, 1, Len(name) - Len(Suffix(name)))

WithSuffix(p, suffix) == Append(Front(p), Stem(Name(p)) \o suffix)

\* str(full_path.relative_to(self.vault_path))
RelStr(p) == Join(SubSeq(p, Len(VaultRoot) + 1, Len(p)), "/")

_is_hidden(name) == StartsWith(name, ".")

(***************************************************************************)
(* Optional values: None is the empty tuple, a present value v is <<v>>    *)
(***************************************************************************)
None == <<>>

Some(v) == <<v>>

(***************************************************************************)
(* The header block ("frontmatter"): frontmatter.loads / frontmatter.dumps *)
(* of the python-frontmatter package with its YAML handler, as the manager *)
(* calls them.  YAML is modelled for the documents the model writes into   *)
(* headers: block mappings of `key: value` lines with plain one-word       *)
(* values, the empty flow mapping `{}`, plain scalars, and the unclosed    *)
(* flow sequence `[`, which is a syntax error.                             *)
(***************************************************************************)
\* a line FM_BOUNDARY = ^-{3,}\s*$ matches
IsBoundary(line) ==
  LET t == RStripCh(line, {" "})
  IN  Len(t) >= 3 /\ \A i \in 1..Len(t) : Ch(t, i) = "-"

RECURSIVE FirstBoundary(_, _)
FirstBoundary(lines, i) ==
  IF i > Len(lines) THEN 0
  ELSE IF IsBoundary(lines[i]) THEN i
  ELSE FirstBoundary(lines, i + 1)

\* dict[k] = v on an insertion-ordered dict, kept as a sequence of pairs
RECURSIVE DictSet(_, _, _)
DictSet(d, k, v) ==
  IF d = <<>> THEN << <<k, v>> >>
  ELSE IF d[1][1] = k THEN << <<k, v>> >> \o Tail(d)
  ELSE <<d[1]>> \o DictSet(Tail(d), k, v)

DictHas(d, k) == \E i \in 1..Len(d) : d[i][1] = k

DictGet(d, k) == d[CHOOSE i \in 1..Len(d) : d[i][1] = k][2]

\* `key: value` with a one-word key and a one-word value
IsKeyValue(line) ==
  LET k == Find(line, ":", 1)
  IN  /\ 1 < k /\ k + 1 < Len(line)
      /\ Ch(line, k + 1) = " "
      /\ ~Contains(SubSeq(line, 1, k - 1), " ")
      /\ Strip(SubSeq(line, k + 2, Len(line))) # ""
      /\ ~Contains(SubSeq(line, k + 1, Len(line)), ":")
      /\ ~Contains(line, "[")

KeyOf(line) == SubSeq(line, 1, Find(line, ":", 1) - 1)

ValueOf(line) == Strip(SubSeq(line, Find(line, ":", 1) + 2, Len(line)))

RECURSIVE NonBlank(_)
NonBlank(lines) ==
  IF lines = <<>> THEN <<>>
  ELSE IF Strip(lines[1]) = "" THEN NonBlank(Tail(lines))
  ELSE <<lines[1]>> \o NonBlank(Tail(lines))

RECURSIVE LoadMapping(_, _)
LoadMapping(lines, d) ==
  IF lines = <<>> THEN d
  ELSE LoadMapping(Tail(lines), DictSet(d, KeyOf(lines[1]), ValueOf(lines[1])))

\* yaml.load(fm, SafeLoader): [ok |-> FALSE] is a YAMLError; `dict` tells a
\* mapping from any other document (a scalar, or None for an empty document)
yaml_load(fm) ==
  LET lines == NonBlank(Split(fm, "\n"))
  IN  IF lines = <<>> THEN [ok |-> TRUE, dict |-> FALSE, map |-> <<>>]
      ELSE IF lines = <<"{}">> THEN [ok |-> TRUE, dict |-> TRUE, map |-> <<>>]
      ELSE IF \A i \in 1..Len(lines) : IsKeyValue(lines[i])
      THEN [ok |-> TRUE, dict |-> TRUE, map |-> LoadMapping(lines, <<>>)]
      ELSE IF \A i \in 1..Len(lines) :
                ~Contains(lines[i], ": ") /\ ~Contains(lines[i], "[")
                /\ ~EndsWith(lines[i], ":")
      THEN [ok |-> TRUE, dict |-> FALSE, map |-> <<>>]
      ELSE [ok |-> FALSE, dict |-> FALSE, map |-> <<>>]

RECURSIVE DumpMapping(_)
DumpMapping(d) ==
  IF d = <<>> THEN ""
  ELSE d[1][1] \o ": " \o d[1][2] \o "\n" \o DumpMapping(Tail(d))

\* yaml.dump(metadata, default_flow_style=False, sort_keys=False)
yaml_dump(d) == IF d = <<>> THEN "{}\n" ELSE DumpMapping(d)

\* frontmatter.loads(text): the text is stripped, split at the first two
\* boundary lines when it starts with one, the block between them is loaded
\* as YAML and the rest, stripped, is the content
frontmatter_loads(text) ==
  LET t     == Strip(text)
      lines == Split(t, "\n")
      close == FirstBoundary(lines, 2)
      plain == [ok |-> TRUE, metadata |-> <<>>, content |-> t]
  IN  IF ~IsBoundary(lines[1]) \/ close = 0 THEN plain
      ELSE LET fm   == yaml_load(Join(SubSeq(lines, 2, close - 1), "\n"))
               rest == Strip(Join(SubSeq(lines, close + 1, Len(lines)), "\n"))
           IN  IF ~fm.ok THEN [ok |-> FALSE, metadata |-> <<>>, content |-> ""]
               ELSE [ok |-> TRUE, metadata |-> fm.map, content |-> rest]

\* frontmatter.dumps(post, sort_keys=False)
frontmatter_dumps(metadata, content) ==
  Strip("---\n" \o Strip(yaml_dump(metadata)) \o "\n---\n\n" \o content \o "\n")

(***************************************************************************)
(* Checkboxes: TASK_PATTERN, matched with re.MULTILINE, is a line start,   *)
(* whitespace (group 1), a dash, whitespace, a bracketed blank or x or X    *)
(* (group 2), whitespace, and the rest of the line (group 3, not empty).    *)
(* Whitespace includes line breaks, so a match may span several lines.      *)
(***************************************************************************)
\* the end of the run of whitespace that starts at i (\s* taken greedily)
RECURSIVE SkipSpace(_, _)
SkipSpace(c, i) ==
  IF i <= Len(c) /\ IsSpace(Ch(c, i)) THEN SkipSpace(c, i + 1) ELSE i

\* where (.+) starts: the last place in m..n the pattern's third \s* can end,
\* that is the last one that holds a character other than a line break
RECURSIVE TextStart(_, _, _)
TextStart(c, m, n) ==
  IF n < m THEN 0
  ELSE IF n <= Len(c) /\ Ch(c, n) # "\n" THEN n
  ELSE TextStart(c, m, n - 1)

NoMatch == [ok |-> FALSE, start |-> 0, stop |-> 0, g1 |-> "", g2 |-> "", g3 |-> ""]

\* TASK_PATTERN matched at the line start i; stop is the place after the match
MatchAt(c, i) ==
  LET j == SkipSpace(c, i)
      k == SkipSpace(c, j + 1)
      m == k + 3
      t == TextStart(c, m, SkipSpace(c, m))
      e == Find(c, "\n", t)
  IN  IF /\ j <= Len(c) /\ Ch(c, j) = "-"
         /\ k + 2 <= Len(c)
         /\ Ch(c, k) = "["
         /\ Ch(c, k + 1) \in {" ", "x", "X"}
         /\ Ch(c, k + 2) = "]"
         /\ t # 0
      THEN [ok |-> TRUE, start |-> i, stop |-> e,
            g1 |-> SubSeq(c, i, j - 1), g2 |-> Ch(c, k + 1),
            g3 |-> SubSeq(c, t, e - 1)]
      ELSE NoMatch

\* TASK_PATTERN.finditer(content): the matches from left to right; ^ admits a
\* match only at the start of a line, and a match ends at the end of a line
RECURSIVE finditer(_, _)
finditer(c, i) ==
  IF i > Len(c) THEN <<>>
  ELSE LET m == MatchAt(c, i)
       IN  IF m.ok THEN <<m>> \o finditer(c, m.stop + 1)
           ELSE finditer(c, Find(c, "\n", i) + 1)

\* content[: match.start()].count("\n") + 1
LineNumber(c, m) == Count(SubSeq(c, 1, m.start - 1), "\n") + 1

\* the tuples (match, line_num, task_text, completed) complete_task collects
TaskOf(c, m) ==
  [match |-> m, line |-> LineNumber(c, m), text |-> Strip(m.g3),
   completed |-> Lower(m.g2) = "x"]

Tasks(c) == LET ms == finditer(c, 1) IN [i \in 1..Len(ms) |-> TaskOf(c, ms[i])]

\* int(task_identifier): None for a ValueError
Digits == <<"0", "1", "2", "3", "4", "5", "6", "7", "8", "9">>

DigitVal(ch) == (CHOOSE i \in 1..Len(Digits) : Digits[i] = ch) - 1

IsDigit(ch) == \E i \in 1..Len(Digits) : Digits[i] = ch

RECURSIVE DecVal(_, _)
DecVal(s, acc) ==
  IF s = "" THEN acc ELSE DecVal(Tail(s), acc * 10 + DigitVal(Ch(s, 1)))

ParseInt(s) ==
  LET t    == Strip(s)
      sign == IF t # "" /\ Ch(t, 1) \in {"+", "-"} THEN Ch(t, 1) ELSE ""
      d    == SubSeq(t, Len(sign) + 1, Len(t))
  IN  IF d # "" /\ \A i \in 1..Len(d) : IsDigit(Ch(d, i))
      THEN Some(IF sign = "-" THEN 0 - DecVal(d, 0) ELSE DecVal(d, 0))
      ELSE None

RECURSIVE Select(_, _, _)
Select(ts, Keep(_), i) ==
  IF i > Len(ts) THEN <<>>
  ELSE (IF Keep(ts[i]) THEN <<ts[i]>> ELSE <<>>) \o Select(ts, Keep, i + 1)

TaskNotFoundError == "TaskNotFoundError"

Chosen(t) == [err |-> "", task |-> t]

NoTask(why) == [err |-> TaskNotFoundError, why |-> why]

\* step 1 of the cascade: the identifier is a line number
ByLine(tasks, n) ==
  IF \E i \in 1..Len(tasks) : tasks[i].line = n
  THEN LET t == tasks[CHOOSE i \in 1..Len(tasks) :
                        /\ tasks[i].line = n
                        /\ \A j \in 1..(i - 1) : tasks[j].line # n]
       IN  IF t.completed THEN NoTask("already completed") ELSE Chosen(t)
  ELSE NoTask("no task at line")

\* an exact match that also takes completed tasks
ExactAnyState(tasks, id) ==
  LET id_lower == Lower(id)
      E(t) == Lower(t.text) = id_lower
  IN  Select(tasks, E, 1)

\* step 2 of the cascade: the incomplete tasks whose text is the identifier
Exact(tasks, id) ==
  LET id_lower == Lower(id)
      E(t) == Lower(t.text) = id_lower /\ ~t.completed
  IN  Select(tasks, E, 1)

\* step 3 of the cascade: the incomplete tasks whose text holds the identifier
Substr(tasks, id) ==
  LET id_lower == Lower(id)
      S(t) == Contains(Lower(t.text), id_lower) /\ ~t.completed
  IN  Select(tasks, S, 1)

ByText(tasks, id) ==
  LET exact  == Exact(tasks, id)
      substr == Substr(tasks, id)
  IN  IF Len(exact) = 1 THEN Chosen(exact[1])
      ELSE IF Len(exact) = 0
      THEN IF Len(substr) = 1 THEN Chosen(substr[1])
           ELSE IF Len(substr) > 1 THEN NoTask("multiple")
           ELSE NoTask("not found")
      ELSE NoTask("multiple")

\* a selection that tries the identifier as text when no line matches it
FindTargetFallback(content, task_identifier) ==
  LET tasks == Tasks(content)
      n     == ParseInt(task_identifier)
  IN  IF Len(tasks) = 0 THEN NoTask("no tasks")
      ELSE IF n # None /\ ByLine(tasks, n[1]).err = "" THEN ByLine(tasks, n[1])
      ELSE ByText(tasks, task_identifier)

\* the task complete_task selects in `content`, or the error it raises
FindTarget(content, task_identifier) ==
  LET tasks == Tasks(content)
      n     == ParseInt(task_identifier)
  IN  IF Len(tasks) = 0 THEN NoTask("no tasks")
      ELSE IF n # None THEN ByLine(tasks, n[1])
      ELSE ByText(tasks, task_identifier)

\* content[: start] + "<g1>- [x] <g3>" + content[end :]
ReplaceCheckbox(content, m) ==
  SubSeq(content, 1, m.start - 1) \o m.g1 \o "- [x] " \o m.g3
    \o SubSeq(content, m.stop, Len(content))

(***************************************************************************)
(* Links and tags: WIKILINK_PATTERN is two opening brackets, a name without *)
(* closing bracket or bar (group 1), optionally a bar and an alias without  *)
(* closing bracket, and two closing brackets; TAG_PATTERN is a hash, a      *)
(* letter and then letters, digits, underscores, slashes and hyphens.       *)
(***************************************************************************)
\* the end of the run of characters outside `stops` that starts at i
RECURSIVE SkipUntil(_, _, _)
SkipUntil(c, i, stops) ==
  IF i <= Len(c) /\ Ch(c, i) \notin stops THEN SkipUntil(c, i + 1, stops) ELSE i

\* c[i - 1 : j] of Python, cut at the end of c
Slice(c, i, j) == SubSeq(c, i, IF j > Len(c) THEN Len(c) ELSE j)

\* WIKILINK_PATTERN matched at i: group 1 and the place after the match
LinkAt(c, i) ==
  LET j == SkipUntil(c, i + 2, {"]", "|"})
      k == SkipUntil(c, j + 1, {"]"})
      name == SubSeq(c, i + 2, j - 1)
  IN  IF Slice(c, i, i + 1) # "[[" \/ j = i + 2
      THEN [ok |-> FALSE, g1 |-> "", stop |-> i]
      ELSE IF Slice(c, j, j + 1) = "]]"
      THEN [ok |-> TRUE, g1 |-> name, stop |-> j + 2]
      ELSE IF Slice(c, j, j) = "|" /\ k > j + 1 /\ Slice(c, k, k + 1) = "]]"
      THEN [ok |-> TRUE, g1 |-> name, stop |-> k + 2]
      ELSE [ok |-> FALSE, g1 |-> "", stop |-> i]

\* WIKILINK_PATTERN.findall(content)
RECURSIVE WikiLinks(_, _)
WikiLinks(c, i) ==
  IF i > Len(c) THEN <<>>
  ELSE LET m == LinkAt(c, i)
       IN  IF m.ok THEN <<m.g1>> \o WikiLinks(c, m.stop)
           ELSE WikiLinks(c, i + 1)

IsTagChar(ch) == IsLetter(ch) \/ IsDigit(ch) \/ ch \in {"_", "/", "-"}

RECURSIVE SkipTag(_, _)
SkipTag(c, i) ==
  IF i <= Len(c) /\ IsTagChar(Ch(c, i)) THEN SkipTag(c, i + 1) ELSE i

\* TAG_PATTERN.findall(content)
RECURSIVE InlineTags(_, _)
InlineTags(c, i) ==
  IF i > Len(c) THEN <<>>
  ELSE IF Ch(c, i) = "#" /\ i < Len(c) /\ IsLetter(Ch(c, i + 1))
  THEN <<SubSeq(c, i + 1, SkipTag(c, i + 1) - 1)>>
         \o InlineTags(c, SkipTag(c, i + 1))
  ELSE InlineTags(c, i + 1)

(***************************************************************************)
(* The filesystem: a function from the paths that exist to their entries   *)
(***************************************************************************)
Dir == [kind |-> "dir", content |-> ""]

File(c) == [kind |-> "file", content |-> c]

\* a regular file whose bytes are no UTF-8 text
Binary == [kind |-> "binary", content |-> ""]

Exists(f, p) == p \in DOMAIN f

IsDir(f, p) == p \in DOMAIN f /\ f[p].kind = "dir"

IsFile(f, p) == p \in DOMAIN f /\ f[p].kind \in {"file", "binary"}

\* os.listdir(p), as a set: the order of a listing is the filesystem's choice
Listdir(f, p) == {Last(q) : q \in {r \in DOMAIN f : r # <<>> /\ Front(r) = p}}

Put(f, p, e) == (p :> e) @@ f

Remove(f, p) == [q \in DOMAIN f \ {p} |-> f[q]]

Prefixes(p) == {SubSeq(p, 1, n) : n \in 0..Len(p)}

\* os.makedirs(p, exist_ok=True) succeeds unless a file is in the way
CanMakedirs(f, p) == \A q \in Prefixes(p) : q \in DOMAIN f => f[q].kind = "dir"

Makedirs(f, p) ==
  [q \in DOMAIN f \cup Prefixes(p) |-> IF q \in DOMAIN f THEN f[q] ELSE Dir]

\* open(p, "w") needs the parent directory and no directory at p
CanOpenW(f, p) == IsDir(f, Parent(p)) /\ ~IsDir(f, p)

\* os.replace(src, dst) of a regular file
CanReplace(f, src, dst) ==
  IsFile(f, src) /\ IsDir(f, Parent(dst)) /\ ~IsDir(f, dst)

\* a replace that drops the source and leaves the destination as it was
ReplaceDropped(f, src, dst) == Remove(f, src)

Replace(f, src, dst) == Remove(Put(f, dst, f[src]), src)

\* _read_note_content: None for what cannot be opened and read as text
_read_note_content(f, p) ==
  IF p \in DOMAIN f /\ f[p].kind = "file" THEN Some(f[p].content) ELSE None

(***************************************************************************)
(* Note metadata                                                           *)
(***************************************************************************)
\* _get_note_title(path, content) with the content already read
_get_note_title(path, content) ==
  LET post == frontmatter_loads(content)
  IN  IF post.ok /\ DictHas(post.metadata, "title")
      THEN DictGet(post.metadata, "title")
      ELSE Stem(Name(path))

\* _get_note_tags(content): the header's `tags` when it is a string (the
\* model writes no lists into headers) and the inline tags, sorted
_get_note_tags(content) ==
  LET post == frontmatter_loads(content)
      fm   == IF post.ok /\ DictHas(post.metadata, "tags")
              THEN {DictGet(post.metadata, "tags")} ELSE {}
  IN  SortedSet(fm \cup Range(InlineTags(content, 1)))

\* the NoteContent read_note builds from what it read
NoteContent(path, full_path, content) ==
  LET post == frontmatter_loads(content)
  IN  [path     |-> path,
       title    |-> _get_note_title(full_path, content),
       content  |-> IF post.ok THEN post.content ELSE content,
       tags     |-> _get_note_tags(content),
       metadata |-> IF post.ok THEN post.metadata ELSE <<>>]

\* a composition that leaves the suffix as it was given
ComposeAsGiven(path, folder) ==
  IF folder # "" THEN RStripCh(folder, {"/"}) \o "/" \o LStripCh(path, {"/"})
  ELSE path

\* create_note's full_rel_path
ComposePath(path, folder) ==
  LET joined == IF folder # ""
                THEN RStripCh(folder, {"/"}) \o "/" \o LStripCh(path, {"/"})
                ELSE path
  IN  IF EndsWith(joined, ".md") THEN joined ELSE joined \o ".md"

\* an update that writes the content and drops the header
ContentOnly(existing, content, preserve_frontmatter) == content

\* update_note's final_content
FinalContent(existing, content, preserve_frontmatter) ==
  IF preserve_frontmatter /\ existing # None /\ existing[1] # ""
  THEN LET post == frontmatter_loads(existing[1])
       IN  IF post.ok THEN frontmatter_dumps(post.metadata, content)
           ELSE content
  ELSE content

\* an append that puts a newline in between whatever the note ends with
AlwaysNewline(existing, content) == existing \o "\n" \o content

\* append_note's new_content
\* an append that never puts a newline in between
AppendContentGlued(existing, content) == existing \o content

AppendContent(existing, content) ==
  IF existing # "" /\ ~EndsWith(existing, "\n")
  THEN existing \o "\n" \o content
  ELSE existing \o content

(***************************************************************************)
(* State.  Each caller of the manager is a process: idle between calls,    *)
(* else at the await it is suspended at.                                   *)
(*   fs       the filesystem                                               *)
(*   pc       where each process is                                        *)
(*   call     the operation each process called last, with its arguments   *)
(*   loc      the local variables of the call in progress                  *)
(*   res      what the last call returned or raised                        *)
(*   touched  whether the call has accessed the filesystem                 *)
(*   wrote    whether the call has changed the filesystem                  *)
(*   ncalls   the number of calls made                                     *)
(*   nuuid    the number of uuids drawn (each draw is taken to be fresh)   *)
(*   whole    every content that was ever handed over complete: the        *)
(*            contents present at the start and the ones given to          *)
(*            _atomic_write                                                *)
(*   gone     the paths delete_note removed, until something appears there *)
(*   pre      the filesystem as it was when the call in progress started   *)
(***************************************************************************)
VARIABLES fs, pc, call, loc, res, touched, wrote, ncalls, nuuid, whole, gone,
          pre

vars ==
  <<fs, pc, call, loc, res, touched, wrote, ncalls, nuuid, whole, gone, pre>>

Procs == {1, 2}

\* tool is the tool that made the call, "" for a call of the manager itself
\* the variables of _handle_bulk_operation: `item` is the index of the item
\* being handled, `attempted` the indices handled so far, and `entries` how
\* the manager call of each item starts, which the item alone decides
NoBulk ==
  [operation |-> "", items |-> <<>>, item |-> 0, affected |-> 0,
   errors |-> <<>>, attempted |-> <<>>, entries |-> <<>>]

NoCall ==
  [op |-> "", path |-> "", arg |-> "", folder |-> "", flag |-> FALSE,
   limit |-> 0, tags |-> <<>>, tool |-> "", bulk |-> NoBulk]

Loc0 ==
  [target |-> <<>>, rel |-> "", data |-> "", tmp |-> <<>>, after |-> "",
   dst |-> <<>>, info |-> <<>>, stack |-> <<>>, cur |-> <<>>, out |-> <<>>]

NoRes == [kind |-> "none", val |-> <<>>]

NoteNotFoundError == "NoteNotFoundError"

NoteAlreadyExistsError == "NoteAlreadyExistsError"

FolderNotFoundError == "FolderNotFoundError"

FolderAlreadyExistsError == "FolderAlreadyExistsError"

FolderNotEmptyError == "FolderNotEmptyError"

PreferencesParseError == "PreferencesParseError"

\* the exceptions below VaultError
VaultErrors ==
  {PathTraversalError, NoteNotFoundError, NoteAlreadyExistsError,
   FolderNotFoundError, FolderAlreadyExistsError, FolderNotEmptyError,
   TaskNotFoundError, PreferencesParseError}

\* an error of the operating system that the manager lets through
OSError == "OSError"

\* asyncio.CancelledError, or the process dying
Cancelled == "Cancelled"

Contents(f) == {f[q].content : q \in {r \in DOMAIN f : f[r].kind = "file"}}

InitWith(f) ==
  /\ fs = f
  /\ pc = [p \in Procs |-> "idle"]
  /\ call = [p \in Procs |-> NoCall]
  /\ loc = [p \in Procs |-> Loc0]
  /\ res = [p \in Procs |-> NoRes]
  /\ touched = [p \in Procs |-> FALSE]
  /\ wrote = [p \in Procs |-> FALSE]
  /\ ncalls = 0
  /\ nuuid = 0
  /\ whole = Contents(f)
  /\ gone = {}
  /\ pre = [p \in Procs |-> f]

\* the filesystem becomes f through an access of process p
Access(p, f, del) ==
  /\ fs' = f
  /\ touched' = [touched EXCEPT ![p] = TRUE]
  /\ wrote' = [wrote EXCEPT ![p] = @ \/ f # fs]
  /\ gone' = (gone \cup del) \ (DOMAIN f \ DOMAIN fs)

\* after an access, p is suspended at its next await
Await(p, label, l, f) ==
  /\ pc' = [pc EXCEPT ![p] = label]
  /\ loc' = [loc EXCEPT ![p] = l]
  /\ Access(p, f, {})
  /\ UNCHANGED <<call, res, ncalls, nuuid, whole, pre>>

\* q[:n] for n >= 0
Take(q, n) == IF n >= Len(q) THEN q ELSE SubSeq(q, 1, n)

\* the items obsidian_query_vault makes of the manager's results, in the
\* concise format
QueryItems(c, val) ==
  CASE c.op = "search_text" ->
         [i \in 1..Len(val) |->
            [path |-> val[i].path, title |-> val[i].title,
             line_number |-> val[i].line_number]]
    [] c.op \in {"find_by_tag", "get_backlinks"} ->
         [i \in 1..Len(val) |-> [path |-> val[i].path, title |-> val[i].title]]
    [] c.op = "list_notes" ->
         LET limited_notes == Take(val, c.limit)
         IN  [i \in 1..Len(limited_notes) |->
                [path |-> limited_notes[i].path,
                 title |-> limited_notes[i].title]]
    [] c.op = "list_folders" ->
         LET limited_folders == Take(val, c.limit)
         IN  [i \in 1..Len(limited_folders) |->
                [path |-> limited_folders[i].path,
                 title |-> limited_folders[i].name]]
    [] c.op = "get_tags" ->
         LET all_tags == Take(val, c.limit)
         IN  [i \in 1..Len(all_tags) |-> [path |-> "", title |-> all_tags[i]]]
    [] c.op = "list_tasks" ->
         [i \in 1..Len(val) |->
            [path |-> val[i].path, task_text |-> val[i].task_text,
             task_completed |-> val[i].completed,
             line_number |-> val[i].line_number]]
    [] OTHER -> <<>>

\* obsidian_query_vault was called without a parameter its operation needs
ParameterRequired == "ParameterRequired"

\* the QueryResult of a failure
QueryFailed(c, message) ==
  [success |-> FALSE, operation |-> c.op, total_count |-> 0, results |-> <<>>,
   truncated |-> FALSE, message |-> message]

\* what obsidian_query_vault returns when the manager returned val or
\* raised `kind`: a VaultError becomes a failure, any other exception
\* goes on to the caller
QueryResult(c, kind, val) ==
  IF kind = "ok"
  THEN LET items == QueryItems(c, val)
       IN  [kind |-> "ok",
            val |-> [success |-> TRUE, operation |-> c.op,
                     total_count |-> Len(items), results |-> items,
                     truncated |-> Len(items) >= c.limit,
                     message |-> IF Len(items) = 0 THEN "No results found"
                                 ELSE ""]]
  ELSE IF kind \in VaultErrors \cup {ParameterRequired}
  THEN [kind |-> "ok", val |-> QueryFailed(c, kind)]
  ELSE [kind |-> kind, val |-> val]

\* what the caller of call c gets when the manager returns val or raises
Outcome(c, kind, val) ==
  IF c.tool = "query" /\ kind # "none" THEN QueryResult(c, kind, val)
  ELSE [kind |-> kind, val |-> val]

\* an item of a bulk call; "" stands for a field left out
BulkNoteItem(path, content, task_identifier) ==
  [path |-> path, content |-> content, folder |-> "",
   task_identifier |-> task_identifier]

BulkErrorItem(path, error) == [path |-> path, error |-> error]

\* the field the loop finds missing in `item`, "" when none is
Required(operation, item) ==
  IF operation \in {"create", "update", "append"} /\ item.content = ""
  THEN "Content required"
  ELSE IF operation = "complete_task" /\ item.task_identifier = ""
  THEN "Task identifier required"
  ELSE ""

\* the manager call the loop makes for `item`, up to its first await: the
\* call, what validate_path yields, and the label and local variables there
Entry(operation, item) ==
  LET full_rel_path == ComposePath(item.path, item.folder)
      v == validate_path(IF operation = "create" THEN full_rel_path
                         ELSE item.path)
      c == [NoCall EXCEPT !.path = item.path]
      l == [Loc0 EXCEPT !.target = v.val, !.rel = item.path]
  IN  CASE operation = "read" ->
             [c |-> [c EXCEPT !.op = "read_note"], v |-> v,
              label |-> "rd_exists", l |-> l]
        [] operation = "create" ->
             [c |-> [c EXCEPT !.op = "create_note", !.arg = item.content,
                              !.folder = item.folder], v |-> v,
              label |-> "cr_exists",
              l |-> [l EXCEPT !.rel = full_rel_path, !.data = item.content,
                              !.after = "read_note"]]
        [] operation = "update" ->
             [c |-> [c EXCEPT !.op = "update_note", !.arg = item.content,
                              !.flag = TRUE], v |-> v,
              label |-> "up_exists",
              l |-> [l EXCEPT !.data = item.content, !.after = "read_note"]]
        [] operation = "append" ->
             [c |-> [c EXCEPT !.op = "append_note", !.arg = item.content],
              v |-> v, label |-> "ap_exists",
              l |-> [l EXCEPT !.after = "read_note"]]
        [] operation = "delete" ->
             [c |-> [c EXCEPT !.op = "delete_note"], v |-> v,
              label |-> "de_exists", l |-> l]
        [] operation = "complete_task" ->
             [c |-> [c EXCEPT !.op = "complete_task",
                              !.arg = item.task_identifier], v |-> v,
              label |-> "ct_exists", l |-> [l EXCEPT !.after = "task_info"]]

\* `affected += 1`, or the except clause, once the item's call is over
AfterItem(b, path, kind) ==
  IF kind = "ok" THEN [b EXCEPT !.affected = @ + 1]
  ELSE [b EXCEPT !.errors = Append(@, BulkErrorItem(path, kind))]

\* the loop from item i on, as far as it runs without suspending: up to an
\* item whose manager call reaches an await, or to the end of the items
RECURSIVE BulkRun(_, _)
BulkRun(b, i) ==
  IF i > Len(b.items) THEN [b EXCEPT !.item = i]
  ELSE LET item == b.items[i]
           at == [b EXCEPT !.item = i, !.attempted = Append(@, i)]
           required == Required(b.operation, item)
           v == b.entries[i].v
       IN  IF required # ""
           THEN BulkRun(AfterItem(at, item.path, required), i + 1)
           ELSE IF v.err # ""
           THEN BulkRun(AfterItem(at, item.path, v.err), i + 1)
           ELSE at

Finished(b) == b.item > Len(b.items)

\* the NoteOperationResult of a bulk call; errors is empty for None
NoteOperationResult(b) ==
  [success |-> Len(b.errors) = 0, operation |-> b.operation, path |-> "",
   message |-> IF Len(b.errors) = 0 THEN "completed"
               ELSE "partially completed",
   affected_count |-> b.affected, errors |-> b.errors]

\* the call of a bulk item that is under way
BulkCall(b) == [b.entries[b.item].c EXCEPT !.tool = "bulk", !.bulk = b]

\* the manager call of a bulk item is over: a VaultError is caught and the
\* loop goes on, any other exception leaves the tool
BulkReturn(p, kind, f, del) ==
  /\ Access(p, f, del)
  /\ UNCHANGED <<ncalls, nuuid, whole, pre>>
  /\ IF kind \in {"ok"} \cup VaultErrors
     THEN LET was == call[p].bulk
              b == BulkRun(AfterItem(was, was.items[was.item].path, kind),
                           was.item + 1)
          IN  IF Finished(b)
              THEN /\ pc' = [pc EXCEPT ![p] = "idle"]
                   /\ loc' = [loc EXCEPT ![p] = Loc0]
                   /\ call' = [call EXCEPT ![p].bulk = b]
                   /\ res' = [res EXCEPT ![p] =
                                [kind |-> "ok", val |-> NoteOperationResult(b)]]
              ELSE LET e == b.entries[b.item]
                   IN  /\ pc' = [pc EXCEPT ![p] = e.label]
                       /\ loc' = [loc EXCEPT ![p] = e.l]
                       /\ call' = [call EXCEPT ![p] = BulkCall(b)]
                       /\ UNCHANGED res
     ELSE /\ pc' = [pc EXCEPT ![p] = "idle"]
          /\ loc' = [loc EXCEPT ![p] = Loc0]
          /\ res' = [res EXCEPT ![p] = [kind |-> kind, val |-> <<>>]]
          /\ UNCHANGED call

\* after an access, the call returns val (kind "ok") or raises (kind the
\* error); inside a bulk call the loop takes over
Return(p, kind, val, f, del) ==
  IF call[p].tool = "bulk" THEN BulkReturn(p, kind, f, del)
  ELSE /\ pc' = [pc EXCEPT ![p] = "idle"]
       /\ loc' = [loc EXCEPT ![p] = Loc0]
       /\ res' = [res EXCEPT ![p] = Outcome(call[p], kind, val)]
       /\ Access(p, f, del)
       /\ UNCHANGED <<call, ncalls, nuuid, whole, pre>>

\* a call starts and runs up to its first await, at `label` with the local
\* variables l, or returns at once (label "idle") what r says
Start(p, c, label, l, r) ==
  /\ pc[p] = "idle"
  /\ call' = [call EXCEPT ![p] = c]
  /\ ncalls' = ncalls + 1
  /\ touched' = [touched EXCEPT ![p] = FALSE]
  /\ wrote' = [wrote EXCEPT ![p] = FALSE]
  /\ pc' = [pc EXCEPT ![p] = label]
  /\ loc' = [loc EXCEPT ![p] = l]
  /\ res' = [res EXCEPT ![p] = Outcome(c, r.kind, r.val)]
  /\ pre' = [pre EXCEPT ![p] = fs]
  /\ UNCHANGED <<fs, nuuid, whole, gone>>

\* a call starts with validate_path, which yields v for its path arguments;
\* l are the local variables at the first await
Begin(p, c, v, label, l) ==
  IF v.err # "" THEN Start(p, c, "idle", Loc0, [kind |-> v.err, val |-> <<>>])
  ELSE Start(p, c, label, l, NoRes)

\* obsidian_manage_notes(operation, bulk=True, items)
CallBulkNotes(p, operations, itemss) ==
  \E operation \in operations, items \in itemss :
    LET entries == [i \in 1..Len(items) |-> Entry(operation, items[i])]
        b == BulkRun([NoBulk EXCEPT !.operation = operation,
                                    !.items = items,
                                    !.entries = entries], 1)
        c == [NoCall EXCEPT !.op = operation, !.tool = "bulk", !.bulk = b]
    IN  IF items = <<>>
        THEN Start(p, c, "idle", Loc0,
                   [kind |-> "ok",
                    val |-> [success |-> FALSE, operation |-> operation,
                             path |-> "", message |-> "requires items",
                             affected_count |-> None, errors |-> <<>>]])
        ELSE IF Finished(b)
        THEN Start(p, c, "idle", Loc0,
                   [kind |-> "ok", val |-> NoteOperationResult(b)])
        ELSE Start(p, BulkCall(b), entries[b.item].label, entries[b.item].l,
                   NoRes)

(***************************************************************************)
(* validate_path called on its own                                         *)
(***************************************************************************)
CallValidatePath(p, paths) ==
  \E path \in paths :
    LET v == validate_path(path)
    IN  /\ pc[p] = "idle"
        /\ call' = [call EXCEPT ![p] = [NoCall EXCEPT !.op = "validate_path",
                                                      !.path = path]]
        /\ res' = [res EXCEPT ![p] =
                     IF v.err # "" THEN [kind |-> v.err, val |-> <<>>]
                     ELSE [kind |-> "ok", val |-> v.val]]
        /\ UNCHANGED <<fs, pc, loc, touched, wrote, ncalls, nuuid, whole, gone,
                       pre>>

(***************************************************************************)
(* _atomic_write(path, content): loc.target is the path, loc.data the      *)
(* content, loc.after what the caller does once the write has returned     *)
(***************************************************************************)
\* uuid.uuid4().hex[:8], the n-th one drawn
Uuid(n) == "u" \o Digits[n + 1]

\* a write that opens the target itself
TempInPlace(path, n) == path

\* temp_path = path.with_suffix(f".{uuid}.tmp")
TempPath(path, n) == WithSuffix(path, "." \o Uuid(n) \o ".tmp")

\* what stands in a file that a write of `content` has not finished
Partial(content) == SubSeq(content, 1, Len(content) \div 2)

\* the write to the file behind the open descriptor; a file that was
\* removed or replaced meanwhile is no longer reachable under its path
WriteTo(f, p, c) == IF IsFile(f, p) THEN Put(f, p, File(c)) ELSE f

\* read_note(path) up to its first await
EnterRead(p, path, f) ==
  LET v == validate_path(path)
  IN  IF v.err # "" THEN Return(p, v.err, <<>>, f, {})
      ELSE Await(p, "rd_exists",
                 [Loc0 EXCEPT !.target = v.val, !.rel = path], f)

\* the caller's code after `await self._atomic_write(...)`
AfterWrite(p, f) ==
  CASE loc[p].after = "read_note" -> EnterRead(p, loc[p].rel, f)
    [] loc[p].after = "task_info" -> Return(p, "ok", loc[p].info, f, {})
    [] OTHER -> Return(p, "ok", None, f, {})

\* aiofiles.open(temp_path, "w")
atomic_write_open(p) ==
  /\ pc[p] = "aw_open"
  /\ LET temp_path == TempPath(loc[p].target, nuuid + 1)
         l == [loc[p] EXCEPT !.tmp = temp_path]
     IN  /\ pc' = [pc EXCEPT ![p] =
                     IF CanOpenW(fs, temp_path) THEN "aw_write" ELSE "aw_except"]
         /\ loc' = [loc EXCEPT ![p] = l]
         /\ Access(p, IF CanOpenW(fs, temp_path)
                      THEN Put(fs, temp_path, File("")) ELSE fs, {})
  /\ nuuid' = nuuid + 1
  /\ whole' = whole \cup {loc[p].data}
  /\ UNCHANGED <<call, res, ncalls, pre>>

\* f.write(content): the first part of the content reaches the file
atomic_write_write(p) ==
  /\ pc[p] = "aw_write"
  /\ Await(p, "aw_close", loc[p],
           WriteTo(fs, loc[p].tmp, Partial(loc[p].data)))

\* leaving `async with`: the rest is flushed and the file closed
atomic_write_close(p) ==
  /\ pc[p] = "aw_close"
  /\ Await(p, "aw_replace", loc[p], WriteTo(fs, loc[p].tmp, loc[p].data))

\* aiofiles.os.replace(temp_path, path)
atomic_write_replace(p) ==
  /\ pc[p] = "aw_replace"
  /\ IF CanReplace(fs, loc[p].tmp, loc[p].target)
     THEN AfterWrite(p, Replace(fs, loc[p].tmp, loc[p].target))
     ELSE Await(p, "aw_except", loc[p], fs)

\* the write or the close raises (the disk is full, say)
atomic_write_fails(p) ==
  /\ pc[p] \in {"aw_write", "aw_close"}
  /\ Await(p, "aw_except", loc[p], fs)

\* except Exception: aiofiles.os.path.exists(temp_path)
atomic_write_except(p) ==
  /\ pc[p] = "aw_except"
  /\ IF Exists(fs, loc[p].tmp)
     THEN Await(p, "aw_remove", loc[p], fs)
     ELSE Return(p, OSError, <<>>, fs, {})

\* an except clause that leaves the temporary file where it is
atomic_write_remove_skipped(p) ==
  /\ pc[p] = "aw_remove"
  /\ Return(p, OSError, <<>>, fs, {})

\* aiofiles.os.remove(temp_path), its own OSError swallowed; then `raise`
atomic_write_remove(p) ==
  /\ pc[p] = "aw_remove"
  /\ Return(p, OSError, <<>>,
            IF IsFile(fs, loc[p].tmp) THEN Remove(fs, loc[p].tmp) ELSE fs, {})

\* the caller cancels the call, or the process dies, while p is suspended
cancel(p) ==
  /\ pc[p] # "idle"
  /\ pc' = [pc EXCEPT ![p] = "idle"]
  /\ loc' = [loc EXCEPT ![p] = Loc0]
  /\ res' = [res EXCEPT ![p] = [kind |-> Cancelled, val |-> <<>>]]
  /\ UNCHANGED <<fs, call, touched, wrote, ncalls, nuuid, whole, gone, pre>>

(***************************************************************************)
(* read_note                                                               *)
(***************************************************************************)
CallReadNote(p, paths) ==
  \E path \in paths :
    LET v == validate_path(path)
    IN  Begin(p, [NoCall EXCEPT !.op = "read_note", !.path = path], v,
              "rd_exists", [Loc0 EXCEPT !.target = v.val, !.rel = path])

read_note_exists(p) ==
  /\ pc[p] = "rd_exists"
  /\ IF ~Exists(fs, loc[p].target)
     THEN Return(p, NoteNotFoundError, <<>>, fs, {})
     ELSE Await(p, "rd_read", loc[p], fs)

read_note_read(p) ==
  /\ pc[p] = "rd_read"
  /\ LET content == _read_note_content(fs, loc[p].target)
     IN  IF content = None
         THEN Return(p, NoteNotFoundError, <<>>, fs, {})
         ELSE Return(p, "ok",
                     NoteContent(loc[p].rel, loc[p].target, content[1]), fs, {})

(***************************************************************************)
(* create_note                                                             *)
(***************************************************************************)
\* a create_note that validates path and not the path composed with folder
CallCreateNoteByPath(p, paths, contents, folders) ==
  \E path \in paths, content \in contents, folder \in folders :
    LET full_rel_path == ComposePath(path, folder)
        v == validate_path(path)
        w == validate_path_unchecked(full_rel_path)
    IN  Begin(p, [NoCall EXCEPT !.op = "create_note", !.path = path,
                                !.arg = content, !.folder = folder],
              IF v.err # "" THEN v ELSE w, "cr_exists",
              [Loc0 EXCEPT !.target = w.val, !.rel = full_rel_path,
                           !.data = content, !.after = "read_note"])

CallCreateNote(p, paths, contents, folders) ==
  \E path \in paths, content \in contents, folder \in folders :
    LET full_rel_path == ComposePath(path, folder)
        v == validate_path(full_rel_path)
    IN  Begin(p, [NoCall EXCEPT !.op = "create_note", !.path = path,
                                !.arg = content, !.folder = folder], v,
              "cr_exists",
              [Loc0 EXCEPT !.target = v.val, !.rel = full_rel_path,
                           !.data = content, !.after = "read_note"])

\* a create_note that goes on whether or not the target exists
create_note_unchecked(p) ==
  /\ pc[p] = "cr_exists"
  /\ Await(p, "cr_parent", loc[p], fs)

create_note_exists(p) ==
  /\ pc[p] = "cr_exists"
  /\ IF Exists(fs, loc[p].target)
     THEN Return(p, NoteAlreadyExistsError, <<>>, fs, {})
     ELSE Await(p, "cr_parent", loc[p], fs)

create_note_parent(p) ==
  /\ pc[p] = "cr_parent"
  /\ IF ~Exists(fs, Parent(loc[p].target))
     THEN Await(p, "cr_makedirs", loc[p], fs)
     ELSE Await(p, "aw_open", loc[p], fs)

create_note_makedirs(p) ==
  /\ pc[p] = "cr_makedirs"
  /\ IF CanMakedirs(fs, Parent(loc[p].target))
     THEN Await(p, "aw_open", loc[p], Makedirs(fs, Parent(loc[p].target)))
     ELSE Return(p, OSError, <<>>, fs, {})

(***************************************************************************)
(* update_note                                                             *)
(***************************************************************************)
CallUpdateNote(p, paths, contents, flags) ==
  \E path \in paths, content \in contents, preserve_frontmatter \in flags :
    LET v == validate_path(path)
    IN  Begin(p, [NoCall EXCEPT !.op = "update_note", !.path = path,
                                !.arg = content,
                                !.flag = preserve_frontmatter], v,
              "up_exists",
              [Loc0 EXCEPT !.target = v.val, !.rel = path,
                           !.data = content, !.after = "read_note"])

update_note_exists(p) ==
  /\ pc[p] = "up_exists"
  /\ IF ~Exists(fs, loc[p].target)
     THEN Return(p, NoteNotFoundError, <<>>, fs, {})
     ELSE IF call[p].flag THEN Await(p, "up_read", loc[p], fs)
     ELSE Await(p, "aw_open", loc[p], fs)

update_note_read(p) ==
  /\ pc[p] = "up_read"
  /\ LET existing == _read_note_content(fs, loc[p].target)
         final_content == FinalContent(existing, call[p].arg, TRUE)
     IN  Await(p, "aw_open", [loc[p] EXCEPT !.data = final_content], fs)

(***************************************************************************)
(* append_note                                                             *)
(***************************************************************************)
CallAppendNote(p, paths, contents) ==
  \E path \in paths, content \in contents :
    LET v == validate_path(path)
    IN  Begin(p, [NoCall EXCEPT !.op = "append_note", !.path = path,
                                !.arg = content], v,
              "ap_exists",
              [Loc0 EXCEPT !.target = v.val, !.rel = path,
                           !.after = "read_note"])

append_note_exists(p) ==
  /\ pc[p] = "ap_exists"
  /\ IF ~Exists(fs, loc[p].target)
     THEN Return(p, NoteNotFoundError, <<>>, fs, {})
     ELSE Await(p, "ap_read", loc[p], fs)

append_note_read(p) ==
  /\ pc[p] = "ap_read"
  /\ LET existing == _read_note_content(fs, loc[p].target)
     IN  IF existing = None
         THEN Return(p, NoteNotFoundError, <<>>, fs, {})
         ELSE Await(p, "aw_open",
                    [loc[p] EXCEPT
                       !.data = AppendContent(existing[1], call[p].arg)], fs)

(***************************************************************************)
(* delete_note                                                             *)
(***************************************************************************)
CallDeleteNote(p, paths) ==
  \E path \in paths :
    LET v == validate_path(path)
    IN  Begin(p, [NoCall EXCEPT !.op = "delete_note", !.path = path], v,
              "de_exists", [Loc0 EXCEPT !.target = v.val, !.rel = path])

\* a delete_note that goes on whether or not the target exists
delete_note_unchecked(p) ==
  /\ pc[p] = "de_exists"
  /\ Await(p, "de_remove", loc[p], fs)

delete_note_exists(p) ==
  /\ pc[p] = "de_exists"
  /\ IF ~Exists(fs, loc[p].target)
     THEN Return(p, NoteNotFoundError, <<>>, fs, {})
     ELSE Await(p, "de_remove", loc[p], fs)

\* a delete_note that reports success and leaves the file where it is
delete_note_kept(p) ==
  /\ pc[p] = "de_remove"
  /\ IF IsFile(fs, loc[p].target)
     THEN Return(p, "ok", None, fs, {loc[p].target})
     ELSE Return(p, OSError, <<>>, fs, {})

\* aiofiles.os.remove(full_path): an OSError for a directory or a path that
\* is gone by now
delete_note_remove(p) ==
  /\ pc[p] = "de_remove"
  /\ IF IsFile(fs, loc[p].target)
     THEN Return(p, "ok", None, Remove(fs, loc[p].target), {loc[p].target})
     ELSE Return(p, OSError, <<>>, fs, {})

(***************************************************************************)
(* complete_task                                                           *)
(***************************************************************************)
CallCompleteTask(p, paths, identifiers) ==
  \E path \in paths, task_identifier \in identifiers :
    LET v == validate_path(path)
    IN  Begin(p, [NoCall EXCEPT !.op = "complete_task", !.path = path,
                                !.arg = task_identifier], v,
              "ct_exists",
              [Loc0 EXCEPT !.target = v.val, !.rel = path,
                           !.after = "task_info"])

complete_task_exists(p) ==
  /\ pc[p] = "ct_exists"
  /\ IF ~Exists(fs, loc[p].target)
     THEN Return(p, NoteNotFoundError, <<>>, fs, {})
     ELSE Await(p, "ct_read", loc[p], fs)

complete_task_read(p) ==
  /\ pc[p] = "ct_read"
  /\ LET content == _read_note_content(fs, loc[p].target)
     IN  IF content = None
         THEN Return(p, NoteNotFoundError, <<>>, fs, {})
         ELSE LET t == FindTarget(content[1], call[p].arg)
              IN  IF t.err # "" THEN Return(p, t.err, <<>>, fs, {})
                  ELSE Await(p, "aw_open",
                         [loc[p] EXCEPT
                            !.data = ReplaceCheckbox(content[1], t.task.match),
                            !.info = [path |-> call[p].path,
                                      task_text |-> t.task.text,
                                      completed |-> TRUE,
                                      line_number |-> t.task.line]], fs)

(***************************************************************************)
(* The operations that walk the tree: _collect_notes, _search_directory,   *)
(* _find_by_tag_directory, _find_by_name_directory, _find_backlinks,       *)
(* _collect_tags and _find_tasks are one loop around different visits,     *)
(* and list_folders is that loop without the recursion.  loc.stack holds   *)
(* one frame per directory being listed: the directory and the entries     *)
(* not yet looked at, in the order the listing gave them; loc.out the      *)
(* results so far.  Times of modification are left out of the results.     *)
(***************************************************************************)
\* line.strip()[:200]
SnippetLen == 200

\* the operations that stop at `limit` results while they walk
HasLimit(op) ==
  op \in {"search_text", "find_by_tag", "get_backlinks", "list_tasks"}

\* a walk that goes on whatever it has found
NeverAtLimit(c, out) == FALSE

AtLimit(c, out) == HasLimit(c.op) /\ Len(out) >= c.limit

\* name.casefold().replace("-", " ").replace("_", " ")
RECURSIVE _normalize_name(_)
_normalize_name(name) ==
  IF name = "" THEN ""
  ELSE (IF Ch(name, 1) \in {"-", "_"} THEN " " ELSE LowerCh(Ch(name, 1)))
         \o _normalize_name(Tail(name))

\* str.removesuffix
RemoveSuffix(t, suf) ==
  IF suf # "" /\ EndsWith(t, suf) THEN SubSeq(t, 1, Len(t) - Len(suf)) ELSE t

\* q[:n]
Upto(q, n) ==
  IF n >= Len(q) THEN q
  ELSE IF n >= 0 THEN SubSeq(q, 1, n)
  ELSE IF Len(q) + n > 0 THEN SubSeq(q, 1, Len(q) + n)
  ELSE <<>>

NoteInfo(cur, content) ==
  [path |-> RelStr(cur), title |-> _get_note_title(cur, content),
   tags |-> _get_note_tags(content)]

\* the first line of `lines`, from the i-th on, that holds the query
RECURSIVE FirstLine(_, _, _)
FirstLine(lines, query, i) ==
  IF i > Len(lines) THEN 0
  ELSE IF Contains(Lower(lines[i]), query) THEN i
  ELSE FirstLine(lines, query, i + 1)

\* _search_directory's visit of a note: one result for its first matching line
SearchVisit(c, cur, content, out) ==
  LET lines == Split(content, "\n")
      i     == FirstLine(lines, Lower(c.arg), 1)
  IN  IF i = 0 THEN out
      ELSE Append(out, [path |-> RelStr(cur),
                        title |-> _get_note_title(cur, content),
                        snippet |-> Slice(Strip(lines[i]), 1, SnippetLen),
                        line_number |-> i])

\* _find_by_tag_directory's visit
TagVisit(c, cur, content, out) ==
  LET tag_set == {LStripCh(Lower(c.tags[i]), {"#"}) : i \in 1..Len(c.tags)}
      note_tags == _get_note_tags(content)
  IN  IF tag_set \cap {Lower(t) : t \in Range(note_tags)} # {}
      THEN Append(out, NoteInfo(cur, content))
      ELSE out

\* _find_by_name_directory's visit: rank 1 is exact_matches, 2
\* contains_matches, 3 title_matches
NameVisit(c, cur, content, out) ==
  LET query_normalized == _normalize_name(RemoveSuffix(c.arg, ".md"))
      filename_normalized == _normalize_name(RemoveSuffix(Name(cur), ".md"))
      note_info == NoteInfo(cur, content)
      title_normalized == _normalize_name(note_info.title)
      found(rank) == Append(out, [rank |-> rank, path |-> note_info.path,
                                  info |-> note_info])
  IN  IF filename_normalized = query_normalized THEN found(1)
      ELSE IF Contains(filename_normalized, query_normalized) THEN found(2)
      ELSE IF Contains(title_normalized, query_normalized) THEN found(3)
      ELSE out

\* the first line that holds [[note_name]] or [[note_name| , stripped
RECURSIVE ContextLine(_, _, _)
ContextLine(lines, note_name, i) ==
  IF i > Len(lines) THEN ""
  ELSE IF \/ Contains(lines[i], "[[" \o note_name \o "]]")
          \/ Contains(lines[i], "[[" \o note_name \o "|")
       THEN Slice(Strip(lines[i]), 1, SnippetLen)
       ELSE ContextLine(lines, note_name, i + 1)

\* _find_backlinks's visit; note_name is Path(note_path).stem
BacklinkVisit(c, cur, content, out) ==
  LET note_name == IF Segs(c.path) = <<>> THEN "" ELSE Stem(Last(Segs(c.path)))
  IN  IF note_name \in Range(WikiLinks(content, 1))
      THEN Append(out, [path |-> RelStr(cur),
                        title |-> _get_note_title(cur, content),
                        context |-> ContextLine(Split(content, "\n"),
                                                note_name, 1)])
      ELSE out

\* _find_tasks's visit: the tasks of the note until the limit is reached
RECURSIVE TaskVisit(_, _, _, _, _)
TaskVisit(c, cur, tasks, i, out) ==
  IF i > Len(tasks) \/ Len(out) >= c.limit THEN out
  ELSE IF ~c.flag /\ tasks[i].completed THEN TaskVisit(c, cur, tasks, i + 1, out)
  ELSE TaskVisit(c, cur, tasks, i + 1,
                 Append(out, [path |-> RelStr(cur),
                              task_text |-> tasks[i].text,
                              completed |-> tasks[i].completed,
                              line_number |-> tasks[i].line]))

\* what the walk does with a note it has read
Visit(c, cur, content, out) ==
  CASE c.op = "list_notes" ->
         Append(out, [NoteInfo(cur, content) EXCEPT
                        !.tags = IF content = "" THEN <<>> ELSE @])
    [] c.op = "search_text" -> SearchVisit(c, cur, content, out)
    [] c.op = "find_by_tag" -> TagVisit(c, cur, content, out)
    [] c.op = "find_by_name" -> NameVisit(c, cur, content, out)
    [] c.op = "get_backlinks" -> BacklinkVisit(c, cur, content, out)
    [] c.op = "get_tags" ->
         IF content = "" THEN out ELSE out \o _get_note_tags(content)
    [] c.op = "list_tasks" -> TaskVisit(c, cur, Tasks(content), 1, out)
    [] OTHER -> out

\* the results of rank k, in the order they were found
RECURSIVE OfRank(_, _)
OfRank(out, k) ==
  IF out = <<>> THEN <<>>
  ELSE (IF out[1].rank = k THEN <<out[1]>> ELSE <<>>) \o OfRank(Tail(out), k)

\* a find_by_name that returns its matches in the order of the walk
FinalizeAsWalked(c, out) ==
  CASE c.op = "find_by_name" ->
         Upto([i \in 1..Len(out) |-> out[i].info], c.limit)
    [] c.op = "list_folders" -> Sorted(out, "name")
    [] c.op = "get_tags" -> SortedSet(Range(out))
    [] OTHER -> out

\* what the operation returns once the walk is over
Finalize(c, out) ==
  CASE c.op = "find_by_name" ->
         LET results == Sorted(OfRank(out, 1), "len")
                          \o Sorted(OfRank(out, 2), "len")
                          \o Sorted(OfRank(out, 3), "len")
         IN  Upto([i \in 1..Len(results) |-> results[i].info], c.limit)
    [] c.op = "list_folders" -> Sorted(out, "name")
    [] c.op = "get_tags" -> SortedSet(Range(out))
    [] OTHER -> out

\* the loop of the innermost directory, until its next await: "wk_stat" on
\* the entry loc.cur, or "done" when the outermost loop has ended
RECURSIVE Advance(_, _, _)
Advance(c, stack, out) ==
  IF stack = <<>>
  THEN [pc |-> "done", stack |-> <<>>, cur |-> <<>>, out |-> out]
  ELSE LET top  == Last(stack)
           rest == Front(stack)
       IN  IF top.ents = <<>> \/ AtLimit(c, out) THEN Advance(c, rest, out)
           ELSE LET st == Append(rest, [top EXCEPT !.ents = Tail(@)])
                IN  IF _is_hidden(top.ents[1]) THEN Advance(c, st, out)
                    ELSE [pc |-> "wk_stat", stack |-> st,
                          cur |-> Append(top.dir, top.ents[1]), out |-> out]

\* a walk that lists the directory it is called on whatever the limit
EnterListing(c, dir, stack, out) ==
  [pc |-> "wk_list", stack |-> stack, cur |-> dir, out |-> out]

\* the walk is called on a directory: it returns at once at the limit, and
\* lists the directory otherwise
Enter(c, dir, stack, out) ==
  IF AtLimit(c, out) THEN Advance(c, stack, out)
  ELSE [pc |-> "wk_list", stack |-> stack, cur |-> dir, out |-> out]

\* process p goes on as r says after an access that left the filesystem f
Walk(p, r, f) ==
  IF r.pc = "done" THEN Return(p, "ok", Finalize(call[p], r.out), f, {})
  ELSE Await(p, r.pc, [loc[p] EXCEPT !.stack = r.stack, !.cur = r.cur,
                                     !.out = r.out], f)

\* a walk that needs no existence check starts
BeginWalk(p, c, v) ==
  LET r == Enter(c, v.val, <<>>, <<>>)
  IN  IF v.err # "" THEN Begin(p, c, v, "idle", Loc0)
      ELSE IF r.pc = "done"
      THEN Start(p, c, "idle", Loc0, [kind |-> "ok", val |-> Finalize(c, r.out)])
      ELSE Start(p, c, r.pc, [Loc0 EXCEPT !.cur = r.cur], NoRes)

\* list_notes(folder)
CallListNotes(p, folders) ==
  \E folder \in folders :
    LET v == validate_path(folder)
    IN  Begin(p, [NoCall EXCEPT !.op = "list_notes", !.path = folder], v,
              "wk_exists", [Loc0 EXCEPT !.target = v.val])

\* list_folders(path)
CallListFolders(p, paths) ==
  \E path \in paths :
    LET v == validate_path(path)
    IN  Begin(p, [NoCall EXCEPT !.op = "list_folders", !.path = path], v,
              "wk_exists", [Loc0 EXCEPT !.target = v.val])

\* search_text(query, path, limit)
CallSearchText(p, queries, paths, limits) ==
  \E query \in queries, path \in paths, limit \in limits :
    BeginWalk(p, [NoCall EXCEPT !.op = "search_text", !.arg = query,
                                !.path = path, !.limit = limit],
              validate_path(path))

\* find_by_tag(tags, path, limit)
CallFindByTag(p, tagss, paths, limits) ==
  \E tags \in tagss, path \in paths, limit \in limits :
    BeginWalk(p, [NoCall EXCEPT !.op = "find_by_tag", !.tags = tags,
                                !.path = path, !.limit = limit],
              validate_path(path))

\* find_by_name(query, path, limit)
CallFindByName(p, queries, paths, limits) ==
  \E query \in queries, path \in paths, limit \in limits :
    BeginWalk(p, [NoCall EXCEPT !.op = "find_by_name", !.arg = query,
                                !.path = path, !.limit = limit],
              validate_path(path))

\* get_backlinks(note_path, limit)
CallGetBacklinks(p, paths, limits) ==
  \E note_path \in paths, limit \in limits :
    LET v == validate_path(note_path)
    IN  Begin(p, [NoCall EXCEPT !.op = "get_backlinks", !.path = note_path,
                                !.limit = limit], v,
              "wk_exists", [Loc0 EXCEPT !.target = v.val])

\* get_tags()
CallGetTags(p) == BeginWalk(p, [NoCall EXCEPT !.op = "get_tags"], Ok(VaultRoot))

\* list_tasks(path, include_completed, limit)
CallListTasks(p, paths, flags, limits) ==
  \E path \in paths, include_completed \in flags, limit \in limits :
    BeginWalk(p, [NoCall EXCEPT !.op = "list_tasks", !.path = path,
                                !.flag = include_completed, !.limit = limit],
              validate_path(path))

\* obsidian_query_vault(operation, query, path, tags, include_completed,
\* limit): the checks of the parameters and the call of the manager; an
\* absent query, path or tags is "" or <<>>
CallQueryVault(p, operations, queries, paths, tagss, flags, limits) ==
  \E operation \in operations, query \in queries, path \in paths,
     tags \in tagss, include_completed \in flags, limit \in limits :
    LET c == [NoCall EXCEPT !.tool = "query", !.op = operation,
                            !.path = path, !.arg = query, !.tags = tags,
                            !.flag = include_completed, !.limit = limit]
        v == validate_path(path)
        required == Start(p, c, "idle", Loc0,
                          [kind |-> ParameterRequired, val |-> <<>>])
        checked == Begin(p, c, v, "wk_exists", [Loc0 EXCEPT !.target = v.val])
    IN  CASE operation = "search_text" ->
               IF query = "" THEN required ELSE BeginWalk(p, c, v)
          [] operation = "find_by_tag" ->
               IF tags = <<>> THEN required ELSE BeginWalk(p, c, v)
          [] operation \in {"list_notes", "list_folders"} -> checked
          [] operation = "get_backlinks" ->
               IF path = "" THEN required ELSE checked
          [] operation = "get_tags" -> BeginWalk(p, c, Ok(VaultRoot))
          [] operation = "list_tasks" -> BeginWalk(p, c, v)

\* the existence check of list_notes, list_folders and get_backlinks
walk_exists(p) ==
  /\ pc[p] = "wk_exists"
  /\ IF ~Exists(fs, loc[p].target)
     THEN Return(p, IF call[p].op = "get_backlinks" THEN NoteNotFoundError
                    ELSE FolderNotFoundError, <<>>, fs, {})
     ELSE Walk(p, Enter(call[p],
                        IF call[p].op = "get_backlinks" THEN VaultRoot
                        ELSE loc[p].target, <<>>, <<>>), fs)

\* aiofiles.os.listdir(path), in whatever order the filesystem lists; an
\* OSError ends the walk of that directory
walk_listdir(p) ==
  /\ pc[p] = "wk_list"
  /\ IF IsDir(fs, loc[p].cur)
     THEN \E entries \in Orders(Listdir(fs, loc[p].cur)) :
            Walk(p, Advance(call[p],
                            Append(loc[p].stack,
                                   [dir |-> loc[p].cur, ents |-> entries]),
                            loc[p].out), fs)
     ELSE Walk(p, Advance(call[p], loc[p].stack, loc[p].out), fs)

\* aiofiles.os.stat(full_path), and what follows up to the next await
walk_stat(p) ==
  /\ pc[p] = "wk_stat"
  /\ LET c   == call[p]
         cur == loc[p].cur
         on  == Advance(c, loc[p].stack, loc[p].out)
     IN  IF ~Exists(fs, cur) THEN Walk(p, on, fs)
         ELSE IF IsDir(fs, cur)
         THEN IF c.op = "list_folders"
              THEN Walk(p, Advance(c, loc[p].stack,
                                   Append(loc[p].out,
                                          [path |-> RelStr(cur),
                                           name |-> Name(cur)])), fs)
              ELSE Walk(p, Enter(c, cur, loc[p].stack, loc[p].out), fs)
         ELSE IF c.op # "list_folders" /\ EndsWith(Name(cur), ".md")
         THEN IF c.op = "get_backlinks" /\ RelStr(cur) = c.path
              THEN Walk(p, on, fs)
              ELSE Await(p, "wk_read", loc[p], fs)
         ELSE Walk(p, on, fs)

\* _read_note_content(full_path) and the visit of the note
walk_read(p) ==
  /\ pc[p] = "wk_read"
  /\ LET content == _read_note_content(fs, loc[p].cur)
     IN  IF content = None
         THEN IF call[p].op = "list_notes"
              THEN Await(p, "wk_title", loc[p], fs)
              ELSE Walk(p, Advance(call[p], loc[p].stack, loc[p].out), fs)
         ELSE Walk(p, Advance(call[p], loc[p].stack,
                              Visit(call[p], loc[p].cur, content[1],
                                    loc[p].out)), fs)

\* list_notes could not read the note: _get_note_title(full_path, None)
\* tries once more, and the note is listed without tags
walk_title(p) ==
  /\ pc[p] = "wk_title"
  /\ LET content == _read_note_content(fs, loc[p].cur)
         title   == IF content = None THEN Stem(Name(loc[p].cur))
                    ELSE _get_note_title(loc[p].cur, content[1])
     IN  Walk(p, Advance(call[p], loc[p].stack,
                         Append(loc[p].out,
                                [path |-> RelStr(loc[p].cur), title |-> title,
                                 tags |-> <<>>])), fs)

(***************************************************************************)
(* list_structure / _build_structure_tree: loc.stack holds one frame per   *)
(* directory whose tree is being built: the directory, its relative path,  *)
(* its name, the entries not yet looked at, sorted, and the nodes built    *)
(***************************************************************************)
FolderNode(name, path, node_type, children) ==
  [name |-> name, path |-> path, node_type |-> node_type,
   children |-> children]

\* the loop of the innermost directory, until its next await: "ls_isdir" on
\* the entry loc.cur, or "done" with the nodes of the outermost directory
RECURSIVE AdvanceTree(_)
AdvanceTree(stack) ==
  LET top  == Last(stack)
      rest == Front(stack)
  IN  IF top.ents = <<>>
      THEN IF rest = <<>>
           THEN [pc |-> "done", stack |-> <<>>, cur |-> <<>>, out |-> top.nodes]
           ELSE AdvanceTree(Append(Front(rest),
                  [Last(rest) EXCEPT
                     !.nodes = Append(@, FolderNode(top.name, top.rel, "folder",
                                                    top.nodes))]))
      ELSE LET st == Append(rest, [top EXCEPT !.ents = Tail(@)])
           IN  IF _is_hidden(top.ents[1]) THEN AdvanceTree(st)
               ELSE [pc |-> "ls_isdir", stack |-> st,
                     cur |-> Append(top.dir, top.ents[1]), out |-> <<>>]

\* the frame of a directory that is still to be listed
TreeFrame(dir, rel, name) ==
  [dir |-> dir, rel |-> rel, name |-> name, ents |-> <<>>, nodes |-> <<>>]

\* list_structure(path)
CallListStructure(p, paths) ==
  \E path \in paths :
    LET c == [NoCall EXCEPT !.op = "list_structure", !.path = path]
        v == validate_path(path)
    IN  IF path # ""
        THEN Begin(p, c, v, "ls_exists", [Loc0 EXCEPT !.target = v.val])
        ELSE Start(p, c, "ls_list",
                   [Loc0 EXCEPT !.stack = <<TreeFrame(VaultRoot, "", "")>>],
                   NoRes)

list_structure_exists(p) ==
  /\ pc[p] = "ls_exists"
  /\ IF ~Exists(fs, loc[p].target)
     THEN Return(p, FolderNotFoundError, <<>>, fs, {})
     ELSE Await(p, "ls_list",
                [loc[p] EXCEPT
                   !.stack = <<TreeFrame(loc[p].target, call[p].path, "")>>],
                fs)

\* aiofiles.os.listdir(full_path) and sorted(entries)
list_structure_listdir(p) ==
  /\ pc[p] = "ls_list"
  /\ LET top == Last(loc[p].stack)
         entries == IF IsDir(fs, top.dir) THEN SortedSet(Listdir(fs, top.dir))
                    ELSE <<>>
     IN  Walk(p, AdvanceTree(Append(Front(loc[p].stack),
                                    [top EXCEPT !.ents = entries])), fs)

\* aiofiles.os.path.isdir(entry_path) and what follows up to the next await
list_structure_isdir(p) ==
  /\ pc[p] = "ls_isdir"
  /\ LET top  == Last(loc[p].stack)
         name == Name(loc[p].cur)
         entry_rel == LStripCh(top.rel \o "/" \o name, {"/"})
     IN  IF IsDir(fs, loc[p].cur)
         THEN Await(p, "ls_list",
                    [loc[p] EXCEPT
                       !.stack = Append(@, TreeFrame(loc[p].cur, entry_rel,
                                                     name))], fs)
         ELSE IF EndsWith(name, ".md")
         THEN Walk(p, AdvanceTree(Append(Front(loc[p].stack),
                        [top EXCEPT
                           !.nodes = Append(@, FolderNode(name, entry_rel,
                                                          "note", <<>>))])),
                   fs)
         ELSE Walk(p, AdvanceTree(loc[p].stack), fs)

(***************************************************************************)
(* create_folder, rename, move, delete_folder                              *)
(***************************************************************************)
FolderInfo(path, full_path) == [path |-> path, name |-> Name(full_path)]

\* os.makedirs(p, exist_ok=False)
CanMakedirsNew(f, p) == CanMakedirs(f, p) /\ ~Exists(f, p)

\* what is at or below p
Below(f, p) == {q \in DOMAIN f : IsPrefix(p, q)}

\* os.rename(src, dst): the source is there, the destination's directory
\* too, the destination is not inside the source, and what is at the
\* destination can be replaced: a file by a file, an empty directory by a
\* directory
CanRename(f, src, dst) ==
  /\ Exists(f, src)
  /\ src # <<>> /\ dst # <<>>
  /\ IsDir(f, Parent(dst))
  /\ src = dst \/ ~IsPrefix(src, dst)
  /\ Exists(f, dst) =>
       IF IsDir(f, src) THEN IsDir(f, dst) /\ (src = dst \/ Below(f, dst) = {dst})
       ELSE IsFile(f, dst)

\* a rename that copies: what is at the source stays there
RenameKept(f, src, dst) ==
  LET moved == {dst \o SubSeq(q, Len(src) + 1, Len(q)) : q \in Below(f, src)}
  IN  [q \in (DOMAIN f \cup moved) |->
         IF q \in moved
         THEN f[src \o SubSeq(q, Len(dst) + 1, Len(q))]
         ELSE f[q]]

Rename(f, src, dst) ==
  IF src = dst THEN f
  ELSE LET moved == {dst \o SubSeq(q, Len(src) + 1, Len(q)) : q \in Below(f, src)}
       IN  [q \in ((DOMAIN f \ Below(f, src)) \cup moved) |->
              IF q \in moved
              THEN f[src \o SubSeq(q, Len(dst) + 1, Len(q))]
              ELSE f[q]]

\* shutil.rmtree(p)
Rmtree(f, p) == [q \in DOMAIN f \ Below(f, p) |-> f[q]]

\* create_folder(path)
CallCreateFolder(p, paths) ==
  \E path \in paths :
    LET v == validate_path(path)
    IN  Begin(p, [NoCall EXCEPT !.op = "create_folder", !.path = path], v,
              "cf_exists", [Loc0 EXCEPT !.target = v.val, !.rel = path])

create_folder_exists(p) ==
  /\ pc[p] = "cf_exists"
  /\ IF Exists(fs, loc[p].target)
     THEN Return(p, FolderAlreadyExistsError, <<>>, fs, {})
     ELSE Await(p, "cf_makedirs", loc[p], fs)

create_folder_makedirs(p) ==
  /\ pc[p] = "cf_makedirs"
  /\ IF CanMakedirsNew(fs, loc[p].target)
     THEN Return(p, "ok", FolderInfo(call[p].path, loc[p].target),
                 Makedirs(fs, loc[p].target), {})
     ELSE Return(p, OSError, <<>>, fs, {})

\* rename(path, new_path) and move(path, new_path)
CallRename(p, paths, new_paths) ==
  \E path \in paths, new_path \in new_paths :
    LET v == validate_path(path)
        w == validate_path(new_path)
    IN  Begin(p, [NoCall EXCEPT !.op = "rename", !.path = path,
                                !.arg = new_path],
              IF v.err # "" THEN v ELSE w, "rn_src",
              [Loc0 EXCEPT !.target = v.val, !.dst = w.val, !.rel = new_path])

CallMove(p, paths, new_paths) ==
  \E path \in paths, new_path \in new_paths :
    LET v == validate_path(path)
        w == validate_path(new_path)
    IN  Begin(p, [NoCall EXCEPT !.op = "move", !.path = path,
                                !.arg = new_path],
              IF v.err # "" THEN v ELSE w, "rn_src",
              [Loc0 EXCEPT !.target = v.val, !.dst = w.val, !.rel = new_path])

\* exists(full_path)
rename_source(p) ==
  /\ pc[p] = "rn_src"
  /\ IF ~Exists(fs, loc[p].target)
     THEN Return(p, IF EndsWith(call[p].path, ".md") THEN NoteNotFoundError
                    ELSE FolderNotFoundError, <<>>, fs, {})
     ELSE Await(p, "rn_dst", loc[p], fs)

\* exists(full_new_path)
rename_destination(p) ==
  /\ pc[p] = "rn_dst"
  /\ IF Exists(fs, loc[p].dst)
     THEN Return(p, IF EndsWith(call[p].arg, ".md") THEN NoteAlreadyExistsError
                    ELSE FolderAlreadyExistsError, <<>>, fs, {})
     ELSE Await(p, IF call[p].op = "move" THEN "mv_parent" ELSE "rn_rename",
                loc[p], fs)

\* move: exists(parent)
move_parent(p) ==
  /\ pc[p] = "mv_parent"
  /\ IF ~Exists(fs, Parent(loc[p].dst))
     THEN Await(p, "mv_makedirs", loc[p], fs)
     ELSE Await(p, "rn_rename", loc[p], fs)

\* move: makedirs(parent, exist_ok=True)
move_makedirs(p) ==
  /\ pc[p] = "mv_makedirs"
  /\ IF CanMakedirs(fs, Parent(loc[p].dst))
     THEN Await(p, "rn_rename", loc[p], Makedirs(fs, Parent(loc[p].dst)))
     ELSE Return(p, OSError, <<>>, fs, {})

\* aiofiles.os.rename(full_path, full_new_path)
rename_rename(p) ==
  /\ pc[p] = "rn_rename"
  /\ IF CanRename(fs, loc[p].target, loc[p].dst)
     THEN Await(p, "rn_isfile", loc[p], Rename(fs, loc[p].target, loc[p].dst))
     ELSE Return(p, OSError, <<>>, fs, {})

\* isfile(full_new_path), then read_note(new_path) or a FolderInfo
rename_isfile(p) ==
  /\ pc[p] = "rn_isfile"
  /\ IF IsFile(fs, loc[p].dst) THEN EnterRead(p, call[p].arg, fs)
     ELSE Return(p, "ok", FolderInfo(call[p].arg, loc[p].dst), fs, {})

\* delete_folder(path, force)
CallDeleteFolder(p, paths, flags) ==
  \E path \in paths, force \in flags :
    LET v == validate_path(path)
    IN  Begin(p, [NoCall EXCEPT !.op = "delete_folder", !.path = path,
                                !.flag = force], v,
              "df_exists", [Loc0 EXCEPT !.target = v.val])

delete_folder_exists(p) ==
  /\ pc[p] = "df_exists"
  /\ IF ~Exists(fs, loc[p].target)
     THEN Return(p, FolderNotFoundError, <<>>, fs, {})
     ELSE Await(p, "df_isdir", loc[p], fs)

delete_folder_isdir(p) ==
  /\ pc[p] = "df_isdir"
  /\ IF ~IsDir(fs, loc[p].target)
     THEN Return(p, FolderNotFoundError, <<>>, fs, {})
     ELSE Await(p, "df_list", loc[p], fs)

\* a deletion that empties the folder whatever `force` says
delete_folder_forced(p) ==
  /\ pc[p] = "df_list"
  /\ IF ~IsDir(fs, loc[p].target) THEN Return(p, OSError, <<>>, fs, {})
     ELSE Await(p, IF Listdir(fs, loc[p].target) # {} THEN "df_rmtree"
                   ELSE "df_rmdir", loc[p], fs)

\* listdir(full_path): an OSError when the folder is gone by now
delete_folder_listdir(p) ==
  /\ pc[p] = "df_list"
  /\ IF ~IsDir(fs, loc[p].target) THEN Return(p, OSError, <<>>, fs, {})
     ELSE LET contents == Listdir(fs, loc[p].target)
          IN  IF contents # {} /\ ~call[p].flag
              THEN Return(p, FolderNotEmptyError, <<>>, fs, {})
              ELSE Await(p, IF call[p].flag /\ contents # {} THEN "df_rmtree"
                            ELSE "df_rmdir", loc[p], fs)

\* asyncio.to_thread(shutil.rmtree, full_path), taken as one step
delete_folder_rmtree(p) ==
  /\ pc[p] = "df_rmtree"
  /\ IF IsDir(fs, loc[p].target) /\ loc[p].target # <<>>
     THEN Return(p, "ok", None, Rmtree(fs, loc[p].target), {})
     ELSE Return(p, OSError, <<>>, fs, {})

\* aiofiles.os.rmdir(full_path)
delete_folder_rmdir(p) ==
  /\ pc[p] = "df_rmdir"
  /\ IF IsDir(fs, loc[p].target) /\ Below(fs, loc[p].target) = {loc[p].target}
     THEN Return(p, "ok", None, Remove(fs, loc[p].target), {})
     ELSE Return(p, OSError, <<>>, fs, {})

(***************************************************************************)
(* load_preferences                                                        *)
(***************************************************************************)
folder_path == VaultRoot \o <<"_jasque">>

prefs_path == VaultRoot \o <<"_jasque", "preferences.md">>

\* PREFERENCES_TEMPLATE, cut down to one setting and the heading of its body
PREFERENCES_TEMPLATE == "---\ndate_format: D\n---\n\n# C\n"

\* UserPreferences(): the defaults, with D for YYYY-MM-DD; the nested
\* settings are left out
UserPreferences == [date_format |-> "D", time_format |-> "HH:mm"]

\* a YAML scalar that loads as a string
YamlStr(v) ==
  /\ v \notin {"", "~", "null", "true", "false", "yes", "no", "on", "off"}
  /\ \E i \in 1..Len(v) : ~IsDigit(Ch(v, i))

\* UserPreferences.model_validate(metadata), and UserPreferences() when the
\* validation fails: a text field must be a string, a nested setting cannot
\* be a scalar, other keys are ignored
model_validate(metadata) ==
  LET texts == {"date_format", "time_format"}
      nested == {"default_folders", "response_style", "search_exclude_folders"}
      Given(k) == IF DictHas(metadata, k) THEN DictGet(metadata, k)
                  ELSE UserPreferences[k]
  IN  IF \/ \E k \in nested : DictHas(metadata, k)
         \/ \E k \in texts : DictHas(metadata, k) /\ ~YamlStr(DictGet(metadata, k))
      THEN UserPreferences
      ELSE [date_format |-> Given("date_format"),
            time_format |-> Given("time_format")]

VaultPreferences(structured, additional_context) ==
  [structured |-> structured, additional_context |-> additional_context]

CallLoadPreferences(p) ==
  Start(p, [NoCall EXCEPT !.op = "load_preferences"], "lp_exists",
        [Loc0 EXCEPT !.target = prefs_path], NoRes)

\* exists(prefs_path)
load_preferences_exists(p) ==
  /\ pc[p] = "lp_exists"
  /\ IF ~Exists(fs, prefs_path) THEN Await(p, "lp_folder", loc[p], fs)
     ELSE Await(p, "lp_read", loc[p], fs)

\* a loader that leaves the missing file missing
load_preferences_untouched(p) ==
  /\ pc[p] = "lp_folder"
  /\ Return(p, "ok", None, fs, {})

\* exists(folder_path), then _atomic_write(prefs_path, PREFERENCES_TEMPLATE)
\* and `return None`
load_preferences_folder(p) ==
  /\ pc[p] = "lp_folder"
  /\ IF Exists(fs, folder_path)
     THEN Await(p, "aw_open", [loc[p] EXCEPT !.data = PREFERENCES_TEMPLATE], fs)
     ELSE Return(p, "ok", None, fs, {})

\* _read_note_content(prefs_path), frontmatter.loads and the validation
load_preferences_read(p) ==
  /\ pc[p] = "lp_read"
  /\ LET content == _read_note_content(fs, prefs_path)
         post == frontmatter_loads(content[1])
     IN  IF content = None THEN Return(p, "ok", None, fs, {})
         ELSE IF ~post.ok THEN Return(p, PreferencesParseError, <<>>, fs, {})
         ELSE Return(p, "ok",
                     Some(VaultPreferences(model_validate(post.metadata),
                                           post.content)), fs, {})

(***************************************************************************)
(* The vault the specifications start from                                 *)
(***************************************************************************)
Under(names) == VaultRoot \o names

EmptyVault == (<<>> :> Dir) @@ (<<"srv">> :> Dir) @@ (VaultRoot :> Dir)

(***************************************************************************)
(* SpecPath: validate_path on every input of up to MaxSegs segments        *)
(***************************************************************************)
MaxSegs == 3

SegAlphabet == {"..", ".", "", "a", "vault"}

PathInputs ==
  {Join(q, "/") : q \in UNION {[1..k -> SegAlphabet] : k \in 0..MaxSegs}}

InitPath == InitWith(EmptyVault)

NextPath == CallValidatePath(1, PathInputs)

SpecPath == InitPath /\ [][NextPath]_vars

\* the normal form of a relative path: `up` leading "..", then names
RECURSIVE NormRel(_, _, _)
NormRel(todo, up, names) ==
  IF todo = <<>> THEN [up |-> up, names |-> names]
  ELSE IF todo[1] = ".."
       THEN IF names # <<>> THEN NormRel(Tail(todo), up, Front(names))
            ELSE NormRel(Tail(todo), up + 1, <<>>)
       ELSE NormRel(Tail(todo), up, Append(names, todo[1]))

\* VaultRoot / normalized(input)
RootJoinNormalized(input) ==
  LET n    == NormRel(Segs(input), 0, <<>>)
      keep == IF n.up >= Len(VaultRoot) THEN 0 ELSE Len(VaultRoot) - n.up
  IN  SubSeq(VaultRoot, 1, keep) \o n.names

\* C1: for a relative input validate_path raises PathTraversalError or
\* returns VaultRoot or a descendant of it; it raises when the input
\* normalizes to a place outside VaultRoot, returns VaultRoot for the empty
\* input and VaultRoot / normalized(input) for an input that stays inside.
C1_PathContainment ==
  \A p \in Procs :
    (call[p].op = "validate_path" /\ ~IsAbsolute(call[p].path)) =>
      LET input    == call[p].path
          expected == RootJoinNormalized(input)
      IN  /\ res[p].kind \in {"ok", PathTraversalError}
          /\ res[p].kind = "ok" => IsPrefix(VaultRoot, res[p].val)
          /\ input = "" => res[p] = [kind |-> "ok", val |-> VaultRoot]
          /\ IF IsPrefix(VaultRoot, expected)
             THEN res[p] = [kind |-> "ok", val |-> expected]
             ELSE res[p].kind = PathTraversalError

C1_Witness ==
  /\ call[1].op = "validate_path"
  /\ call[1].path = "a/../.."
  /\ res[1].kind = PathTraversalError

(***************************************************************************)
(* SpecTask: one caller completes tasks, named by text or by line, in a    *)
(* note of up to MaxTaskLines lines                                       *)
(***************************************************************************)
MaxTaskLines == 3

MaxTaskCalls == 1

TaskLines == {"- [ ] a", "- [ ] ab", "- [ ] A", "- [x] a", "xa", ""}

TaskContents ==
  {Join(q, "\n") : q \in UNION {[1..k -> TaskLines] : k \in 0..MaxTaskLines}}

TaskIdentifiers == {"a", "ab", "b", "2"}

TaskNote == Under(<<"t.md">>)

InitTask == \E c \in TaskContents : InitWith(Put(EmptyVault, TaskNote, File(c)))

NextTask ==
  \/ ncalls < MaxTaskCalls /\ CallCompleteTask(1, {"t.md"}, TaskIdentifiers)
  \/ complete_task_exists(1)
  \/ complete_task_read(1)
  \/ atomic_write_open(1)
  \/ atomic_write_write(1)
  \/ atomic_write_close(1)
  \/ atomic_write_replace(1)

SpecTask == InitTask /\ [][NextTask]_vars

\* the incomplete tasks of content c whose text is id, letter case aside
EqualTo(c, id) ==
  {i \in 1..Len(Tasks(c)) :
     ~Tasks(c)[i].completed /\ Lower(Tasks(c)[i].text) = Lower(id)}

\* the incomplete tasks of content c whose text holds id, letter case aside
Holding(c, id) ==
  {i \in 1..Len(Tasks(c)) :
     ~Tasks(c)[i].completed /\ Contains(Lower(Tasks(c)[i].text), Lower(id))}

\* the task the text cascade is to complete, as a set of at most one index
Unique(c, id) ==
  IF Cardinality(EqualTo(c, id)) = 1 THEN EqualTo(c, id)
  ELSE IF EqualTo(c, id) = {} /\ Cardinality(Holding(c, id)) = 1
       THEN Holding(c, id)
       ELSE {}

\* the call of p is a finished complete_task on a note, its identifier no
\* integer
TextCascadeDone(p) ==
  /\ call[p].op = "complete_task"
  /\ pc[p] = "idle"
  /\ ParseInt(call[p].arg) = None
  /\ IsFile(pre[p], validate_path(call[p].path).val)

\* C10: for an identifier that is no integer, complete_task completes a task
\* exactly when one incomplete task's text equals the identifier (letter
\* case aside), or none equals it and exactly one incomplete task's text
\* contains it; it completes that task and no other.  Otherwise it raises
\* TaskNotFoundError and the file is as it was.  Completed tasks are never
\* candidates and a unique exact match wins over several substring matches.
C10_TextCascade ==
  \A p \in Procs :
    TextCascadeDone(p) =>
      LET target == validate_path(call[p].path).val
          before == pre[p][target].content
          after  == fs[target].content
          u      == Unique(before, call[p].arg)
      IN  IF u = {}
          THEN res[p].kind = TaskNotFoundError /\ fs = pre[p]
          ELSE LET i == CHOOSE j \in u : TRUE
               IN  /\ res[p].kind = "ok"
                   /\ res[p].val.task_text = Tasks(before)[i].text
                   /\ res[p].val.line_number = Tasks(before)[i].line
                   /\ Len(Tasks(after)) = Len(Tasks(before))
                   /\ \A j \in 1..Len(Tasks(before)) :
                        /\ Tasks(after)[j].text = Tasks(before)[j].text
                        /\ Tasks(after)[j].completed =
                             (Tasks(before)[j].completed \/ j = i)

\* "a" is the text of one open task, next to a done task "a" and an open
\* task "ab" that holds it: the open task "a" on line 2 is completed
C10_Witness ==
  /\ TextCascadeDone(1)
  /\ call[1].arg = "a"
  /\ \E c \in TaskContents :
       /\ pre[1][TaskNote].content = c
       /\ Cardinality(Holding(c, "a")) > 1
       /\ \E j \in 1..Len(Tasks(c)) : Tasks(c)[j].completed
  /\ res[1].kind = "ok"
  /\ fs[TaskNote].content # pre[1][TaskNote].content

(***************************************************************************)
(* Notes of one caller: up to MaxNoteCalls calls and then a read_note that *)
(* looks at the outcome                                                    *)
(***************************************************************************)
MaxNoteCalls == 1

Bodies == {"", "a", "\n", "a\n", "\na", "a\nb", " a "}

WithHeader == "---\ntitle: X\n---\nb"

\* the text, stripped, opens with a boundary line and closes the block
HasHeader(c) ==
  LET lines == Split(Strip(c), "\n")
  IN  IsBoundary(lines[1]) /\ FirstBoundary(lines, 2) # 0

Note == Under(<<"n.md">>)

Done(p, op) == call[p].op = op /\ pc[p] = "idle" /\ res[p].kind # "none"

Target(p) == validate_path(call[p].path).val

\* note is what read_note is to return for a file without header: the path
\* asked for, the filename stem as title, the body and no metadata
Plain(note, path, body) ==
  /\ note.path = path
  /\ note.title = Stem(Last(Segs(path)))
  /\ note.content = body
  /\ note.metadata = <<>>

(***************************************************************************)
(* SpecCreate: create_note and read_note in a vault that holds one note    *)
(***************************************************************************)
InitCreate == InitWith(Put(EmptyVault, Note, File("a")))

NextCreate ==
  \/ /\ ncalls < MaxNoteCalls
     /\ CallCreateNote(1, {"m", "m.md", "n"}, Bodies \cup {WithHeader},
                       {"", "d"})
  \/ ncalls <= MaxNoteCalls /\ CallReadNote(1, {"m.md", "d/m.md", "n.md"})
  \/ create_note_exists(1)
  \/ create_note_parent(1)
  \/ create_note_makedirs(1)
  \/ atomic_write_open(1)
  \/ atomic_write_write(1)
  \/ atomic_write_close(1)
  \/ atomic_write_replace(1)
  \/ read_note_exists(1)
  \/ read_note_read(1)

SpecCreate == InitCreate /\ [][NextCreate]_vars

\* p with ".md" appended when p lacks it, prefixed by the folder if given
CreatedPath(path, folder) ==
  (IF folder = "" THEN "" ELSE folder \o "/") \o path
    \o (IF EndsWith(path, ".md") THEN "" ELSE ".md")

\* a finished create_note of a content without header at a path that was
\* absent
CreatedPlain(p) ==
  /\ Done(p, "create_note")
  /\ ~HasHeader(call[p].arg)
  /\ ~Exists(pre[p], validate_path(CreatedPath(call[p].path, call[p].folder)).val)

\* a finished read_note of a file without header
ReadPlain(p) ==
  /\ Done(p, "read_note")
  /\ IsFile(fs, Target(p))
  /\ ~HasHeader(fs[Target(p)].content)

\* C5 as stated: create_note(p, c) of a content without header at an absent
\* path, read back, returns a body equal to c, the filename stem as title and
\* empty metadata, at p with ".md" appended if missing and the folder in
\* front.
C5_RoundTripVerbatim ==
  \A p \in Procs :
    CreatedPlain(p) =>
      LET created == CreatedPath(call[p].path, call[p].folder)
      IN  /\ res[p].kind = "ok"
          /\ Plain(res[p].val, created, call[p].arg)

\* C5: create_note(p, c) of a content without header at an absent path
\* stores c as it is at p with ".md" appended if missing and the folder in
\* front; read back, the body is c without its leading and trailing
\* whitespace, the title the filename stem and the metadata empty.
C5_RoundTrip ==
  \A p \in Procs :
    /\ CreatedPlain(p) =>
         LET created == CreatedPath(call[p].path, call[p].folder)
             target  == validate_path(created).val
         IN  /\ res[p].kind = "ok"
             /\ Plain(res[p].val, created, Strip(call[p].arg))
             /\ IsFile(fs, target) /\ fs[target].content = call[p].arg
             /\ \A q \in DOMAIN fs \ {target} :
                  q \in DOMAIN pre[p] \/ q = Parent(target)
    /\ ReadPlain(p) =>
         /\ res[p].kind = "ok"
         /\ Plain(res[p].val, call[p].path, Strip(fs[Target(p)].content))

\* "a\n" was created as m in folder d and read back: the body is "a"
C5_Witness ==
  /\ ReadPlain(1)
  /\ call[1].path = "d/m.md"
  /\ fs[Under(<<"d", "m.md">>)].content = "a\n"
  /\ res[1].kind = "ok"
  /\ res[1].val.content = "a"
  /\ res[1].val.title = "m"

(***************************************************************************)
(* SpecUpdate: update_note and read_note on a note with or without header, *)
(* on a folder and on a path where nothing is                              *)
(***************************************************************************)
TwoKeys == "---\ntitle: X\nk: v\n---\n\nb\n"

BadHeader == "---\n[\n---\nb"

UpdateExisting == {"", "a", WithHeader, TwoKeys, BadHeader}

InitUpdate ==
  \E c \in UpdateExisting :
    InitWith(Put(Put(EmptyVault, Note, File(c)), Under(<<"d">>), Dir))

NextUpdate ==
  \/ /\ ncalls < MaxNoteCalls
     /\ CallUpdateNote(1, {"n.md", "m.md", "d"}, Bodies, {TRUE, FALSE})
  \/ ncalls <= MaxNoteCalls /\ CallReadNote(1, {"n.md"})
  \/ update_note_exists(1)
  \/ update_note_read(1)
  \/ atomic_write_open(1)
  \/ atomic_write_write(1)
  \/ atomic_write_close(1)
  \/ atomic_write_replace(1)
  \/ atomic_write_except(1)
  \/ atomic_write_remove(1)
  \/ read_note_exists(1)
  \/ read_note_read(1)

SpecUpdate == InitUpdate /\ [][NextUpdate]_vars

\* the key/value pairs of the header of s; none if s has no header or one
\* that cannot be parsed
Pairs(s) ==
  IF HasHeader(s) /\ frontmatter_loads(s).ok THEN frontmatter_loads(s).metadata
  ELSE <<>>

\* a finished update_note, header preserved, of a note whose header held
\* key/value pairs
UpdatedKeeping(p) ==
  /\ Done(p, "update_note")
  /\ call[p].flag
  /\ IsFile(pre[p], Target(p))
  /\ Pairs(pre[p][Target(p)].content) # <<>>

\* C6 as stated: update_note(p, B2) with header preservation on a note whose
\* header holds key/value pairs, read back, returns the metadata the note
\* had and a body equal to B2.
C6_BodyVerbatim ==
  \A p \in Procs :
    UpdatedKeeping(p) =>
      /\ res[p].kind = "ok"
      /\ res[p].val.metadata = Pairs(pre[p][Target(p)].content)
      /\ res[p].val.content = call[p].arg

\* C6: update_note(p, B2) with header preservation on a note whose header
\* holds key/value pairs, read back, returns the metadata the note had,
\* every key and value, and as body B2 without its leading and trailing
\* whitespace; the file holds the same pairs, and the title is the header's.
C6_HeaderPreserved ==
  \A p \in Procs :
    /\ UpdatedKeeping(p) =>
         LET before == Pairs(pre[p][Target(p)].content)
         IN  /\ res[p].kind = "ok"
             /\ res[p].val.metadata = before
             /\ res[p].val.content = Strip(call[p].arg)
             /\ res[p].val.title = DictGet(before, "title")
             /\ Pairs(fs[Target(p)].content) = before
             /\ DOMAIN fs = DOMAIN pre[p]
             /\ \A q \in DOMAIN fs \ {Target(p)} : fs[q] = pre[p][q]
    /\ (Done(p, "read_note") /\ IsFile(fs, Target(p))
          /\ Pairs(fs[Target(p)].content) # <<>>) =>
         /\ res[p].kind = "ok"
         /\ res[p].val.metadata = Pairs(fs[Target(p)].content)
         /\ res[p].val.content = frontmatter_loads(fs[Target(p)].content).content

\* the note with title X and k v got the body "a\n" and was read back: both
\* pairs are there and the body is "a"
C6_Witness ==
  /\ Done(1, "read_note")
  /\ call[1].path = "n.md"
  /\ fs[Note].content = "---\ntitle: X\nk: v\n---\n\na"
  /\ res[1].kind = "ok"
  /\ res[1].val.metadata = << <<"title", "X">>, <<"k", "v">> >>
  /\ res[1].val.content = "a"

(***************************************************************************)
(* SpecAppend: append_note and read_note                                   *)
(***************************************************************************)
InitAppend ==
  \E c \in Bodies \cup {WithHeader} : InitWith(Put(EmptyVault, Note, File(c)))

NextAppend ==
  \/ ncalls < MaxNoteCalls /\ CallAppendNote(1, {"n.md", "m.md"}, Bodies)
  \/ ncalls <= MaxNoteCalls /\ CallReadNote(1, {"n.md"})
  \/ append_note_exists(1)
  \/ append_note_read(1)
  \/ atomic_write_open(1)
  \/ atomic_write_write(1)
  \/ atomic_write_close(1)
  \/ atomic_write_replace(1)
  \/ read_note_exists(1)
  \/ read_note_read(1)

SpecAppend == InitAppend /\ [][NextAppend]_vars

\* a finished append_note to a file
Appended(p) == Done(p, "append_note") /\ IsFile(pre[p], Target(p))

\* C7: append_note(p, c) to a file that holds s leaves s, one line break and
\* c when s is not empty and does not end in a line break, and s and c
\* otherwise: one separating line break in the first case, none in the
\* second, and no leading blank line for an empty file.
C7_AppendNewline ==
  \A p \in Procs :
    Appended(p) =>
      LET s     == pre[p][Target(p)].content
          c     == call[p].arg
          after == fs[Target(p)].content
      IN  /\ res[p].kind = "ok"
          /\ IsFile(fs, Target(p))
          /\ IF s # "" /\ Ch(s, Len(s)) # "\n"
             THEN after = s \o "\n" \o c /\ Len(after) = Len(s) + Len(c) + 1
             ELSE after = s \o c /\ Len(after) = Len(s) + Len(c)
          /\ s = "" => after = c

\* "a" was appended to "a", which ends in no line break: the file is "a\na"
C7_Witness ==
  /\ Appended(1)
  /\ pre[1][Note].content = "a"
  /\ call[1].arg = "a"
  /\ res[1].kind = "ok"
  /\ fs[Note].content = "a\na"

(***************************************************************************)
(* SpecConc: two callers at once on the notes n.md and m.md; a write can   *)
(* fail and a call can be cancelled at any await                           *)
(***************************************************************************)
MaxConcCalls == 2

Other == Under(<<"m.md">>)

InitConc == InitWith(Put(EmptyVault, Note, File("ab")))

NextConc ==
  \E p \in Procs :
    \/ ncalls < MaxConcCalls /\ CallCreateNote(p, {"m"}, {"cd", "ef"}, {""})
    \/ ncalls < MaxConcCalls /\ CallUpdateNote(p, {"n.md"}, {"cd"}, {FALSE})
    \/ ncalls < MaxConcCalls /\ CallDeleteNote(p, {"n.md"})
    \/ create_note_exists(p)
    \/ create_note_parent(p)
    \/ update_note_exists(p)
    \/ delete_note_exists(p)
    \/ delete_note_remove(p)
    \/ read_note_exists(p)
    \/ read_note_read(p)
    \/ atomic_write_open(p)
    \/ atomic_write_write(p)
    \/ atomic_write_close(p)
    \/ atomic_write_replace(p)
    \/ atomic_write_fails(p)
    \/ atomic_write_except(p)
    \/ atomic_write_remove(p)
    \/ cancel(p)

SpecConc == InitConc /\ [][NextConc]_vars

\* the temporary files of _atomic_write
IsTemp(q) == q # <<>> /\ EndsWith(Last(q), ".tmp")

\* the places a caller can name: the files that are no temporary files
Targets(f) == {q \in DOMAIN f : f[q].kind = "file" /\ ~IsTemp(q)}

\* the content at q is not what it was
Changed(q) == q \in Targets(fs') /\ (q \notin Targets(fs) \/ fs'[q] # fs[q])

\* C3: a target never holds partial content.  In every state, in the middle
\* of a write, after a failed one and after a cancellation, each target
\* holds a content that was handed over complete, and so does every note a
\* reader got; and a step changes the content of a target only by putting
\* the complete new content of a write there in one piece.
C3_NoPartialContent ==
  /\ [](/\ \A q \in Targets(fs) : fs[q].content \in whole
        /\ \A p \in Procs :
             (res[p].kind = "ok" /\ call[p].op \in {"read_note", "create_note",
                                     "update_note", "append_note"}) =>
               \E w \in whole : res[p].val.content = Strip(w))
  /\ [][\A q \in Targets(fs) \cup Targets(fs') :
          Changed(q) =>
            \E p \in Procs :
              /\ pc[p] = "aw_replace"
              /\ loc[p].target = q
              /\ fs'[q].content = loc[p].data]_vars

\* a write to n.md was cancelled half way: its temporary file holds a part
\* of the content, n.md what it held before
C3_Witness ==
  /\ \E p \in Procs : res[p].kind = Cancelled /\ call[p].op = "update_note"
  /\ \E q \in DOMAIN fs : IsTemp(q) /\ fs[q].content = "c"
  /\ fs[Note].content = "ab"

\* C4 as stated, its last part: of two create_note calls on the same path,
\* absent when each of them started, at most one returns successfully.
C4_AtMostOneCreates ==
  ~ /\ \A p \in Procs : Done(p, "create_note") /\ res[p].kind = "ok"
    /\ \A p \in Procs : ~Exists(pre[p], Other)

\* C4: create_note never overwrites a note that is there when create_note
\* checks for it: a create_note whose target exists at its existence check
\* raises NoteAlreadyExistsError, and such a call changes nothing.
C4_CreateChecksOnce ==
  /\ [][\A p \in Procs :
          (pc[p] = "cr_exists" /\ touched'[p]
             /\ loc[p].target \in DOMAIN fs) =>
            /\ res'[p].kind = NoteAlreadyExistsError
            /\ pc'[p] = "idle"
            /\ fs' = fs]_vars
  /\ [](\A p \in Procs :
          (Done(p, "create_note") /\ res[p].kind = NoteAlreadyExistsError) =>
            ~wrote[p])

\* both callers created m.md, absent when they started, and both returned
\* successfully: the note holds what the later write put there
C4_Witness ==
  /\ \A p \in Procs : Done(p, "create_note") /\ res[p].kind = "ok"
  /\ \A p \in Procs : ~Exists(pre[p], Other)
  /\ call[1].arg # call[2].arg
  /\ fs[Other].content \in {call[1].arg, call[2].arg}

(***************************************************************************)
(* SpecOps: one caller, every operation of the manager that takes a path,  *)
(* on a vault with a note, a folder, and in it a note, a file that is no   *)
(* text and an empty folder                                                *)
(***************************************************************************)
MaxOpsCalls == 1

OpsVault ==
  (Under(<<"n.md">>) :> File("see [[k]] #t\n- [ ] a"))
    @@ (Under(<<"d">>) :> Dir)
    @@ (Under(<<"d", "k.md">>) :> File("---\ntitle: X\n---\nb [[n]]"))
    @@ (Under(<<"d", "b.md">>) :> Binary)
    @@ (Under(<<"d", "m">>) :> Dir)
    @@ EmptyVault

OpsPaths == {"", "n.md", "d", "x.md", "../e.md", "d/m"}

OpsNewPaths == {"n.md", "y/z.md", "../e.md", "z"}

OpsLimits == {0, 2}

InitOps == InitWith(OpsVault)

OpsFolders == {"", "d", "e", ".."}

NextOps ==
  \/ ncalls < MaxOpsCalls /\ CallReadNote(1, OpsPaths)
  \/ ncalls < MaxOpsCalls /\ CallCreateNote(1, OpsPaths, {"c"}, OpsFolders)
  \/ ncalls < MaxOpsCalls /\ CallUpdateNote(1, OpsPaths, {"c"}, {TRUE})
  \/ ncalls < MaxOpsCalls /\ CallAppendNote(1, OpsPaths, {"c"})
  \/ ncalls < MaxOpsCalls /\ CallDeleteNote(1, OpsPaths)
  \/ ncalls < MaxOpsCalls /\ CallCompleteTask(1, OpsPaths, {"a"})
  \/ ncalls < MaxOpsCalls /\ CallListNotes(1, OpsPaths)
  \/ ncalls < MaxOpsCalls /\ CallListFolders(1, OpsPaths)
  \/ ncalls < MaxOpsCalls /\ CallSearchText(1, {"b"}, OpsPaths, OpsLimits)
  \/ ncalls < MaxOpsCalls /\ CallFindByTag(1, {<<"#T">>}, OpsPaths, OpsLimits)
  \/ ncalls < MaxOpsCalls /\ CallFindByName(1, {"k.md"}, OpsPaths, OpsLimits)
  \/ ncalls < MaxOpsCalls /\ CallGetBacklinks(1, OpsPaths, OpsLimits)
  \/ ncalls < MaxOpsCalls /\ CallGetTags(1)
  \/ ncalls < MaxOpsCalls /\ CallListTasks(1, OpsPaths, {FALSE}, OpsLimits)
  \/ ncalls < MaxOpsCalls /\ CallListStructure(1, OpsPaths)
  \/ ncalls < MaxOpsCalls /\ CallCreateFolder(1, OpsPaths)
  \/ ncalls < MaxOpsCalls /\ CallRename(1, OpsPaths, OpsNewPaths)
  \/ ncalls < MaxOpsCalls /\ CallMove(1, OpsPaths, OpsNewPaths)
  \/ ncalls < MaxOpsCalls /\ CallDeleteFolder(1, OpsPaths, {TRUE, FALSE})
  \/ read_note_exists(1)
  \/ read_note_read(1)
  \/ create_note_exists(1)
  \/ create_note_parent(1)
  \/ create_note_makedirs(1)
  \/ update_note_exists(1)
  \/ update_note_read(1)
  \/ append_note_exists(1)
  \/ append_note_read(1)
  \/ delete_note_exists(1)
  \/ delete_note_remove(1)
  \/ complete_task_exists(1)
  \/ complete_task_read(1)
  \/ atomic_write_open(1)
  \/ atomic_write_write(1)
  \/ atomic_write_close(1)
  \/ atomic_write_replace(1)
  \/ atomic_write_except(1)
  \/ atomic_write_remove(1)
  \/ walk_exists(1)
  \/ walk_listdir(1)
  \/ walk_stat(1)
  \/ walk_read(1)
  \/ walk_title(1)
  \/ list_structure_exists(1)
  \/ list_structure_listdir(1)
  \/ list_structure_isdir(1)
  \/ create_folder_exists(1)
  \/ create_folder_makedirs(1)
  \/ rename_source(1)
  \/ rename_destination(1)
  \/ move_parent(1)
  \/ move_makedirs(1)
  \/ rename_rename(1)
  \/ rename_isfile(1)
  \/ delete_folder_exists(1)
  \/ delete_folder_isdir(1)
  \/ delete_folder_listdir(1)
  \/ delete_folder_rmtree(1)
  \/ delete_folder_rmdir(1)

SpecOps == InitOps /\ [][NextOps]_vars

\* where a path argument leads, ".." taken textually
Leads(path) ==
  IF IsAbsolute(path) THEN NormRel(Segs(path), 0, <<>>).names
  ELSE RootJoinNormalized(path)

EscapesVault(path) == path # "" /\ ~IsPrefix(VaultRoot, Leads(path))

\* the paths a call hands to the manager: for create_note the one composed
\* from folder and path, for rename and move both ends
SuppliedPaths(c) ==
  CASE c.op = "create_note" -> {CreatedPath(c.path, c.folder)}
    [] c.op \in {"rename", "move"} -> {c.path, c.arg}
    [] c.op \in {"", "get_tags", "validate_path"} -> {}
    [] OTHER -> {c.path}

\* C2: every operation that takes paths validates each of them before its
\* first access to the filesystem: a call with a path that escapes the vault
\* has raised PathTraversalError, has accessed nothing and changed nothing,
\* and a call that has accessed the filesystem has no such path.
C2_ValidateFirst ==
  \A p \in Procs :
    /\ (\E q \in SuppliedPaths(call[p]) : EscapesVault(q)) =>
         /\ pc[p] = "idle"
         /\ res[p].kind = PathTraversalError
         /\ ~touched[p] /\ ~wrote[p]
         /\ fs = pre[p]
    /\ touched[p] => \A q \in SuppliedPaths(call[p]) : ~EscapesVault(q)
    /\ (call[p].op # "" /\ \A q \in SuppliedPaths(call[p]) : ~EscapesVault(q))
         => res[p].kind # PathTraversalError

\* create_note of n in the folder "..": the composed path ../n.md escapes
C2_Witness ==
  /\ call[1].op = "create_note"
  /\ call[1].folder = ".."
  /\ call[1].path = "n.md"
  /\ res[1].kind = PathTraversalError
  /\ ~touched[1]

NotFoundOps ==
  {"read_note", "update_note", "append_note", "delete_note", "complete_task",
   "get_backlinks"}

\* C8: read_note, update_note, append_note, delete_note, complete_task and
\* get_backlinks on a path where nothing is raise NoteNotFoundError and write
\* nothing; delete_note on a note removes that file and nothing else.
C8_NotFound ==
  \A p \in Procs :
    /\ (call[p].op \in NotFoundOps /\ pc[p] = "idle"
          /\ ~EscapesVault(call[p].path)
          /\ ~Exists(pre[p], Leads(call[p].path))) =>
         /\ res[p].kind = NoteNotFoundError
         /\ ~wrote[p]
         /\ fs = pre[p]
    /\ (call[p].op = "delete_note" /\ pc[p] = "idle"
          /\ ~EscapesVault(call[p].path)
          /\ IsFile(pre[p], Leads(call[p].path))) =>
         /\ res[p].kind = "ok"
         /\ DOMAIN fs = DOMAIN pre[p] \ {Leads(call[p].path)}
         /\ \A q \in DOMAIN fs : fs[q] = pre[p][q]

\* delete_note removed n.md, and only it
C8_Witness ==
  /\ Done(1, "delete_note")
  /\ call[1].path = "n.md"
  /\ res[1].kind = "ok"
  /\ ~Exists(fs, Note)
  /\ Exists(fs, Under(<<"d", "k.md">>))

(***************************************************************************)
(* One caller deletes, creates, moves, searches, lists and reads, one      *)
(* operation after the other.                                              *)
(***************************************************************************)
MaxSearchCalls == 3

SearchVault ==
  Put(Put(Put(EmptyVault, Note, File("ab\nb")), Under(<<"d">>), Dir),
      Under(<<"d", "k.md">>), File("b"))

SearchPaths == {"n.md", "d/k.md"}

SearchLimits == {5}

InitSearch == InitWith(SearchVault)

NextSearch ==
  \/ ncalls < MaxSearchCalls /\ CallDeleteNote(1, SearchPaths)
  \/ ncalls < MaxSearchCalls /\ CallCreateNote(1, SearchPaths, {"a"}, {""})
  \/ ncalls < MaxSearchCalls /\ CallMove(1, SearchPaths, SearchPaths)
  \/ ncalls < MaxSearchCalls
       /\ CallSearchText(1, {"a", "B"}, {""}, SearchLimits)
  \/ ncalls < MaxSearchCalls /\ CallListNotes(1, {""})
  \/ ncalls < MaxSearchCalls /\ CallReadNote(1, SearchPaths)
  \/ delete_note_exists(1)
  \/ delete_note_remove(1)
  \/ create_note_exists(1)
  \/ create_note_parent(1)
  \/ atomic_write_open(1)
  \/ atomic_write_write(1)
  \/ atomic_write_close(1)
  \/ atomic_write_replace(1)
  \/ read_note_exists(1)
  \/ read_note_read(1)
  \/ rename_source(1)
  \/ rename_destination(1)
  \/ move_parent(1)
  \/ rename_rename(1)
  \/ rename_isfile(1)
  \/ walk_exists(1)
  \/ walk_listdir(1)
  \/ walk_stat(1)
  \/ walk_read(1)

SpecSearch == InitSearch /\ [][NextSearch]_vars

\* the notes a result names
Found(p) == {Leads(res[p].val[i].path) : i \in 1..Len(res[p].val)}

\* C9: once delete_note(p) has succeeded, and until a note is created at p
\* or moved there, search_text and list_notes return no result with path p
\* and read_note(p) raises NoteNotFoundError; search_text returns only notes
\* that exist and hold the query, so a text that matched only in p yields no
\* result.
C9_DeleteThenSearch ==
  \A p \in Procs :
    /\ (\/ Done(p, "search_text") \/ Done(p, "list_notes")) =>
         /\ res[p].kind = "ok"
         /\ Found(p) \cap gone = {}
    /\ (Done(p, "read_note") /\ Leads(call[p].path) \in gone) =>
         res[p].kind = NoteNotFoundError
    /\ Done(p, "search_text") =>
         \A q \in Found(p) :
           /\ IsFile(fs, q)
           /\ Contains(Lower(fs[q].content), Lower(call[p].arg))
    /\ (Done(p, "search_text")
          /\ \A q \in DOMAIN fs :
               fs[q].kind = "file" =>
                 ~Contains(Lower(fs[q].content), Lower(call[p].arg))) =>
         res[p].val = <<>>

\* n.md, the only note that held "a", was deleted, and the search for "a"
\* that followed found nothing
C9_Witness ==
  /\ Done(1, "search_text")
  /\ call[1].arg = "a"
  /\ Note \in gone
  /\ res[1].val = <<>>
  /\ Exists(fs, Under(<<"d", "k.md">>))

(***************************************************************************)
(* Tasks by line number: one caller lists the tasks of a note and          *)
(* completes tasks in it, the note's lines with and without space around   *)
(* the checkbox, blank lines between them                                  *)
(***************************************************************************)
MaxLineLines == 3

MaxLineCalls == 2

LineLines == {"- [ ] a", "- [x] b", " - [ ] 2", "", "- [ ]", "-[ ]  a"}

LineContents ==
  {Join(q, "\n") : q \in UNION {[1..k -> LineLines] : k \in 1..MaxLineLines}}

LineIdentifiers == {"1", "2", "3", " 2", "a"}

LineLimits == {5}

InitLine == \E c \in LineContents : InitWith(Put(EmptyVault, TaskNote, File(c)))

NextLine ==
  \/ ncalls < MaxLineCalls /\ CallCompleteTask(1, {"t.md"}, LineIdentifiers)
  \/ ncalls < MaxLineCalls /\ CallListTasks(1, {""}, {TRUE, FALSE}, LineLimits)
  \/ complete_task_exists(1)
  \/ complete_task_read(1)
  \/ atomic_write_open(1)
  \/ atomic_write_write(1)
  \/ atomic_write_close(1)
  \/ atomic_write_replace(1)
  \/ walk_listdir(1)
  \/ walk_stat(1)
  \/ walk_read(1)

SpecLine == InitLine /\ [][NextLine]_vars

\* the call of p is a finished complete_task on the note with an integer as
\* identifier
LineDone(p) ==
  /\ call[p].op = "complete_task"
  /\ pc[p] = "idle"
  /\ ParseInt(call[p].arg) # None
  /\ IsFile(pre[p], TaskNote)

\* the tasks of content c at line n
AtLine(c, n) == {i \in 1..Len(Tasks(c)) : Tasks(c)[i].line = n}

\* what list_tasks is to report for content c
Reported(c, include_completed) ==
  LET Shown(t) == include_completed \/ ~t.completed
      ts == Select(Tasks(c), Shown, 1)
  IN  [i \in 1..Len(ts) |->
         [path |-> "t.md", task_text |-> ts[i].text,
          completed |-> ts[i].completed, line_number |-> ts[i].line]]

\* C11: with an integer n as identifier, complete_task completes the task
\* whose line number (newlines before the start of the match, plus one) is
\* n, and no other; it raises TaskNotFoundError, the file as it was, when
\* that task is completed already or no task has line number n, whatever
\* the texts of the tasks are.  No two tasks of a file have the same line
\* number, and list_tasks reports these line numbers.
C11_LineNumbers ==
  \A p \in Procs :
    /\ LineDone(p) =>
         LET before == pre[p][TaskNote].content
             after  == fs[TaskNote].content
             at     == AtLine(before, ParseInt(call[p].arg)[1])
         IN  /\ Cardinality(at) <= 1
             /\ IF \E i \in at : ~Tasks(before)[i].completed
                THEN LET i == CHOOSE j \in at : TRUE
                     IN  /\ res[p].kind = "ok"
                         /\ res[p].val.line_number = ParseInt(call[p].arg)[1]
                         /\ res[p].val.task_text = Tasks(before)[i].text
                         /\ Len(Tasks(after)) = Len(Tasks(before))
                         /\ \A j \in 1..Len(Tasks(before)) :
                              /\ Tasks(after)[j].text = Tasks(before)[j].text
                              /\ Tasks(after)[j].completed =
                                   (Tasks(before)[j].completed \/ j = i)
                ELSE res[p].kind = TaskNotFoundError /\ fs = pre[p]
    /\ (Done(p, "list_tasks") /\ IsFile(fs, TaskNote)) =>
         /\ res[p].kind = "ok"
         /\ res[p].val = Reported(fs[TaskNote].content, call[p].flag)

\* "2" is the text of the task of line 1 and the line number of another
\* task: complete_task("2") completed the task of line 2
C11_Witness ==
  /\ LineDone(1)
  /\ call[1].arg = "2"
  /\ res[1].kind = "ok"
  /\ res[1].val.line_number = 2
  /\ res[1].val.task_text # "2"
  /\ \E i \in 1..Len(Tasks(pre[1][TaskNote].content)) :
       /\ Tasks(pre[1][TaskNote].content)[i].text = "2"
       /\ ~Tasks(pre[1][TaskNote].content)[i].completed

\* the incomplete tasks of content c
Incomplete(c) == {i \in 1..Len(Tasks(c)) : ~Tasks(c)[i].completed}

\* the places where the contents a and b of equal length differ
Differing(a, b) == {i \in 1..Len(a) : Ch(a, i) # Ch(b, i)}

\* C12: a successful complete_task changes only the checkbox marker of the
\* task it selected: the content is as long as it was and differs in one
\* place, between the brackets, where a blank became a lowercase x, so
\* that the leading whitespace, the text, the other lines and the number of
\* lines are as before; one incomplete task less is in the file.
C12_OnlyMarkerChanges ==
  \A p \in Procs :
    (Done(p, "complete_task") /\ res[p].kind = "ok") =>
      LET before == pre[p][TaskNote].content
          after  == fs[TaskNote].content
      IN  /\ Len(after) = Len(before)
          /\ Cardinality(Differing(before, after)) = 1
          /\ \A i \in Differing(before, after) :
               /\ Ch(before, i) = " " /\ Ch(after, i) = "x"
               /\ i > 1 /\ Ch(before, i - 1) = "["
               /\ i < Len(before) /\ Ch(before, i + 1) = "]"
          /\ Len(Split(after, "\n")) = Len(Split(before, "\n"))
          /\ Cardinality(Incomplete(after)) = Cardinality(Incomplete(before)) - 1

(***************************************************************************)
(* Backlinks: a note that links to itself, one note that links to it with  *)
(* an alias, one without link and one in a hidden folder                   *)
(***************************************************************************)
MaxLinkCalls == 1

LinkVault ==
  Put(Put(Put(Put(Put(Put(EmptyVault,
    Note, File("[[n]] x")),
    Under(<<"d">>), Dir),
    Under(<<"d", "k.md">>), File("---\ntitle: X\n---\nsee [[n|alias]]")),
    Under(<<"d", "j.md">>), File("n")),
    Under(<<".h">>), Dir),
    Under(<<".h", "s.md">>), File("[[n]]"))

LinkPaths == {"n.md", "./n.md", "d/../n.md", "d/k.md", "x.md"}

LinkLimits == {50}

InitLink == InitWith(LinkVault)

NextLink ==
  \/ ncalls < MaxLinkCalls /\ CallGetBacklinks(1, LinkPaths, LinkLimits)
  \/ walk_exists(1)
  \/ walk_listdir(1)
  \/ walk_stat(1)
  \/ walk_read(1)

SpecLink == InitLink /\ [][NextLink]_vars

\* some segment of the path q below the vault root starts with a dot
Hidden(q) == \E i \in (Len(VaultRoot) + 1)..Len(q) : StartsWith(q[i], ".")

\* the notes other than `target` that hold a link to `stem`
Linking(f, target, stem) ==
  {q \in DOMAIN f :
     /\ f[q].kind = "file"
     /\ q # target
     /\ IsPrefix(VaultRoot, q) /\ ~Hidden(q)
     /\ EndsWith(Name(q), ".md")
     /\ \/ Contains(f[q].content, "[[" \o stem \o "]]")
        \/ Contains(f[q].content, "[[" \o stem \o "|")}

\* C13: get_backlinks of an existing note, however its path is spelled,
\* returns no result for that note itself, also when it links to itself,
\* and exactly one result for every other readable note outside hidden
\* folders that holds [[stem]] or [[stem|alias]].
C13_BacklinkExclusion ==
  \A p \in Procs :
    (Done(p, "get_backlinks") /\ IsFile(pre[p], Leads(call[p].path))) =>
      LET target == Leads(call[p].path)
          found  == res[p].val
      IN  /\ res[p].kind = "ok"
          /\ \A i \in 1..Len(found) : Leads(found[i].path) # target
          /\ \A q \in Linking(fs, target, Stem(Name(target))) :
               Cardinality({i \in 1..Len(found) : Leads(found[i].path) = q}) = 1
          /\ \A i \in 1..Len(found) :
               Leads(found[i].path) \in
                 Linking(fs, target, Stem(Name(target))) \cup {target}

(***************************************************************************)
(* Hidden entries: a hidden folder and a hidden note at the root, a hidden *)
(* folder inside a folder, and the queries scoped to each folder           *)
(***************************************************************************)
MaxHiddenCalls == 1

HiddenVault ==
  Put(Put(Put(Put(Put(Put(Put(Put(EmptyVault,
    Note, File("#t a\n- [ ] a")),
    Under(<<".x.md">>), File("#w a")),
    Under(<<".h">>), Dir),
    Under(<<".h", "s.md">>), File("#u a\n- [ ] a")),
    Under(<<"d">>), Dir),
    Under(<<"d", "k.md">>), File("a #t")),
    Under(<<"d", ".g">>), Dir),
    Under(<<"d", ".g", "r.md">>), File("#v a"))

HiddenScopes == {"", "d", ".h"}

HiddenLimits == {9}

InitHidden == InitWith(HiddenVault)

NextHidden ==
  \/ ncalls < MaxHiddenCalls /\ CallListNotes(1, HiddenScopes)
  \/ ncalls < MaxHiddenCalls /\ CallListFolders(1, HiddenScopes)
  \/ ncalls < MaxHiddenCalls /\ CallListStructure(1, HiddenScopes)
  \/ ncalls < MaxHiddenCalls
       /\ CallSearchText(1, {"a"}, HiddenScopes, HiddenLimits)
  \/ ncalls < MaxHiddenCalls
       /\ CallFindByTag(1, {<<"t", "u", "v", "w">>}, HiddenScopes, HiddenLimits)
  \/ ncalls < MaxHiddenCalls
       /\ CallListTasks(1, HiddenScopes, {TRUE}, HiddenLimits)
  \/ ncalls < MaxHiddenCalls /\ CallGetTags(1)
  \/ walk_exists(1)
  \/ walk_listdir(1)
  \/ walk_stat(1)
  \/ walk_read(1)
  \/ list_structure_exists(1)
  \/ list_structure_listdir(1)
  \/ list_structure_isdir(1)

SpecHidden == InitHidden /\ [][NextHidden]_vars

\* some segment of the relative path starts with a dot
DotSegment(path) ==
  \E i \in 1..Len(Split(path, "/")) : StartsWith(Split(path, "/")[i], ".")

\* the paths of the nodes of a tree and of all nodes below them
RECURSIVE NodePaths(_)
NodePaths(nodes) ==
  UNION {{nodes[i].path} \cup NodePaths(nodes[i].children) :
           i \in 1..Len(nodes)}

\* the tags of the notes that are not at or below a hidden entry
VisibleTags(f) ==
  UNION {Range(_get_note_tags(f[q].content)) :
           q \in {r \in DOMAIN f : /\ f[r].kind = "file"
                                   /\ IsPrefix(VaultRoot, r)
                                   /\ ~Hidden(r)}}

\* C14: whatever folder the query is scoped to, list_notes, list_folders,
\* list_structure, search_text, find_by_tag and list_tasks return no item
\* whose path has a segment that starts with a dot, and get_tags returns no
\* tag that only notes at or below such an entry hold.
C14_HiddenExclusion ==
  \A p \in Procs :
    /\ (/\ pc[p] = "idle" /\ res[p].kind = "ok"
        /\ call[p].op \in {"list_notes", "list_folders", "search_text",
                           "find_by_tag", "list_tasks"}) =>
         \A i \in 1..Len(res[p].val) : ~DotSegment(res[p].val[i].path)
    /\ (Done(p, "list_structure") /\ res[p].kind = "ok") =>
         \A path \in NodePaths(res[p].val) : ~DotSegment(path)
    /\ (Done(p, "get_tags") /\ res[p].kind = "ok") =>
         Range(res[p].val) \subseteq VisibleTags(fs)

(***************************************************************************)
(* obsidian_query_vault and find_by_name with limits from none to more     *)
(* than there is to find                                                   *)
(***************************************************************************)
MaxQueryCalls == 1

MaxLimit == 4

QueryVault ==
  Put(Put(Put(Put(Put(EmptyVault,
    Note, File("a #t\n- [ ] a\n- [x] b")),
    Under(<<"d">>), Dir),
    Under(<<"d", "k.md">>), File("a [[n]] #t")),
    Under(<<"d", "j.md">>), File("A #u [[n|m]]\n- [ ] c")),
    Under(<<"e">>), Dir)

QueryPaths == {"", "d", "n.md", "x"}

InitQuery == InitWith(QueryVault)

NextQuery ==
  \/ ncalls < MaxQueryCalls
       /\ CallQueryVault(1, {"search_text"}, {"", "a"}, QueryPaths,
                         {<<>>}, {FALSE}, 0..MaxLimit)
  \/ ncalls < MaxQueryCalls
       /\ CallQueryVault(1, {"find_by_tag"}, {""}, QueryPaths,
                         {<<>>, <<"#T">>}, {FALSE}, 0..MaxLimit)
  \/ ncalls < MaxQueryCalls
       /\ CallQueryVault(1, {"list_notes", "list_folders", "get_backlinks"},
                         {""}, QueryPaths, {<<>>}, {FALSE}, 0..MaxLimit)
  \/ ncalls < MaxQueryCalls
       /\ CallQueryVault(1, {"get_tags"}, {""}, {""}, {<<>>}, {FALSE},
                         0..MaxLimit)
  \/ ncalls < MaxQueryCalls
       /\ CallQueryVault(1, {"list_tasks"}, {""}, QueryPaths, {<<>>},
                         {TRUE, FALSE}, 0..MaxLimit)
  \/ ncalls < MaxQueryCalls
       /\ CallFindByName(1, {"k", "n"}, {""}, 0..MaxLimit)
  \/ walk_exists(1)
  \/ walk_listdir(1)
  \/ walk_stat(1)
  \/ walk_read(1)

SpecQuery == InitQuery /\ [][NextQuery]_vars

\* the notes below the folder `base`, hidden ones left out
NotesBelow(f, base) ==
  {q \in DOMAIN f :
     /\ IsFile(f, q)
     /\ EndsWith(Name(q), ".md")
     /\ IsPrefix(base, q) /\ q # base
     /\ ~Hidden(q)}

\* what there is in the vault for the query c to find
Matching(f, c) ==
  LET base  == Leads(c.path)
      notes == NotesBelow(f, base)
      text  == {q \in notes : f[q].kind = "file"}
  IN  CASE c.op = "search_text" ->
             {q \in text : Contains(Lower(f[q].content), Lower(c.arg))}
        [] c.op = "find_by_tag" ->
             {q \in text :
                \E i \in 1..Len(c.tags), t \in Range(_get_note_tags(f[q].content)) :
                  Lower(t) = LStripCh(Lower(c.tags[i]), {"#"})}
        [] c.op = "find_by_name" ->
             {q \in text :
                \/ Contains(_normalize_name(Stem(Name(q))),
                            _normalize_name(c.arg))
                \/ Contains(_normalize_name(_get_note_title(q, f[q].content)),
                            _normalize_name(c.arg))}
        [] c.op = "list_notes" -> notes
        [] c.op = "list_folders" ->
             {q \in DOMAIN f :
                IsDir(f, q) /\ Len(q) = Len(base) + 1 /\ IsPrefix(base, q)
                  /\ ~Hidden(q)}
        [] c.op = "get_backlinks" -> Linking(f, base, Stem(Name(base)))
        [] c.op = "get_tags" -> VisibleTags(f)
        [] c.op = "list_tasks" ->
             {<<q, i>> \in text \X (1..MaxLineLines + 1) :
                /\ i <= Len(Tasks(f[q].content))
                /\ c.flag \/ ~Tasks(f[q].content)[i].completed}

\* the smaller of two numbers
Min(a, b) == IF a <= b THEN a ELSE b

\* C15: a query with a limit returns no more items than the limit, and as
\* many as there are when these are fewer; on success the truncated flag of
\* obsidian_query_vault is true exactly when the vault holds at least
\* `limit` items that match.
C15_Limit ==
  \A p \in Procs :
    /\ (pc[p] = "idle" /\ call[p].tool = "query" /\ res[p].kind = "ok") =>
         LET r == res[p].val
             n == Cardinality(Matching(fs, call[p]))
         IN  /\ Len(r.results) <= call[p].limit
             /\ r.total_count = Len(r.results)
             /\ r.success =>
                  /\ Len(r.results) = Min(n, call[p].limit)
                  /\ r.truncated = (n >= call[p].limit)
    /\ (Done(p, "find_by_name") /\ call[p].tool = "") =>
         /\ res[p].kind = "ok"
         /\ Len(res[p].val) =
              Min(Cardinality(Matching(fs, call[p])), call[p].limit)

\* three notes hold "a"; the search with limit 2 returned two of them and
\* says that it was truncated
C15_Witness ==
  /\ pc[1] = "idle" /\ call[1].tool = "query" /\ res[1].kind = "ok"
  /\ call[1].op = "search_text"
  /\ call[1].limit = 2
  /\ Cardinality(Matching(fs, call[1])) = 3
  /\ Len(res[1].val.results) = 2
  /\ res[1].val.truncated

(***************************************************************************)
(* SpecFolder: one caller deletes, renames and moves folders and notes     *)
(***************************************************************************)
MaxFolderCalls == 2

FolderVault ==
  Put(Put(Put(Put(Put(Put(EmptyVault, Note, File("a")),
                          Under(<<"d">>), Dir),
                      Under(<<"d", "k.md">>), File("b")),
                  Under(<<"d", "s">>), Dir),
              Under(<<"d", "s", "j.md">>), File("c")),
      Under(<<"e">>), Dir)

DeletePaths == {"", ".", "d", "d/s", "e", "n.md", "x", "../o"}

SourcePaths == {"n.md", "d", "e", "x.md", "x", "../o", ""}

DestinationPaths == {"n.md", "d/k.md", "e", "y.md", "d/y/x", "e/y", "n.md/y"}

InitFolder == InitWith(FolderVault)

NextFolder ==
  \/ ncalls < MaxFolderCalls
       /\ CallDeleteFolder(1, DeletePaths, {TRUE, FALSE})
  \/ ncalls < MaxFolderCalls /\ CallRename(1, SourcePaths, DestinationPaths)
  \/ ncalls < MaxFolderCalls /\ CallMove(1, SourcePaths, DestinationPaths)
  \/ ncalls < MaxFolderCalls /\ CallDeleteNote(1, SourcePaths)
  \/ delete_folder_exists(1)
  \/ delete_folder_isdir(1)
  \/ delete_folder_listdir(1)
  \/ delete_folder_rmtree(1)
  \/ delete_folder_rmdir(1)
  \/ rename_source(1)
  \/ rename_destination(1)
  \/ move_parent(1)
  \/ move_makedirs(1)
  \/ rename_rename(1)
  \/ rename_isfile(1)
  \/ read_note_exists(1)
  \/ read_note_read(1)
  \/ delete_note_exists(1)
  \/ delete_note_remove(1)

SpecFolder == InitFolder /\ [][NextFolder]_vars

\* f without what is at or below path t
Without(f, t) == [q \in DOMAIN f \ Below(f, t) |-> f[q]]

\* C16: delete_folder(p, force=false) on a folder with at least one entry
\* raises FolderNotEmptyError and leaves the folder and its contents as they
\* were; with force=true it succeeds, and afterwards neither p nor anything
\* below p exists while everything else is as before; on an absent path or
\* a file it raises FolderNotFoundError and removes nothing.
C16_DeleteFolderGuard ==
  \A p \in Procs :
    (Done(p, "delete_folder") /\ ~EscapesVault(call[p].path)) =>
      LET t == Target(p)
          before == pre[p]
      IN  /\ ~IsDir(before, t) =>
               res[p].kind = FolderNotFoundError /\ fs = before
          /\ (IsDir(before, t) /\ Listdir(before, t) # {} /\ ~call[p].flag) =>
               res[p].kind = FolderNotEmptyError /\ fs = before
          /\ (IsDir(before, t) /\ Listdir(before, t) # {} /\ call[p].flag) =>
               /\ res[p].kind = "ok"
               /\ Below(fs, t) = {}
               /\ fs = Without(before, t)

\* the folder d, which held a note and a subfolder, was deleted with force
C16_Witness ==
  /\ Done(1, "delete_folder")
  /\ call[1].path = "d" /\ call[1].flag
  /\ IsDir(pre[1], Under(<<"d", "s">>))
  /\ res[1].kind = "ok"
  /\ Below(fs, Under(<<"d">>)) = {}

\* what is at or below path t in f
Subtree(f, t) == [q \in Below(f, t) |-> f[q]]

\* C17: rename and move raise NoteNotFoundError or FolderNotFoundError, by
\* the suffix of path, when the source is absent; otherwise
\* NoteAlreadyExistsError or FolderAlreadyExistsError, by the suffix of
\* new_path, when the destination exists; and whenever they raise, what is
\* at or below the source and the destination is as it was before.
C17_RenameMoveErrors ==
  \A p \in Procs :
    ((Done(p, "rename") \/ Done(p, "move"))
       /\ ~EscapesVault(call[p].path) /\ ~EscapesVault(call[p].arg)) =>
      LET src == Target(p)
          dst == validate_path(call[p].arg).val
          before == pre[p]
      IN  /\ ~Exists(before, src) =>
               res[p].kind = IF EndsWith(call[p].path, ".md")
                             THEN NoteNotFoundError ELSE FolderNotFoundError
          /\ (Exists(before, src) /\ Exists(before, dst)) =>
               res[p].kind = IF EndsWith(call[p].arg, ".md")
                             THEN NoteAlreadyExistsError
                             ELSE FolderAlreadyExistsError
          /\ res[p].kind # "ok" =>
               /\ Subtree(fs, src) = Subtree(before, src)
               /\ Subtree(fs, dst) = Subtree(before, dst)

\* C18: every call of a manager operation returns normally or raises one of
\* the typed errors below VaultError; no other exception, such as an error
\* of the operating system from remove, rename, rmdir or makedirs, leaves
\* the manager.
C18_TypedErrorsOnly ==
  \A p \in Procs :
    (pc[p] = "idle" /\ res[p].kind # "none") =>
      res[p].kind \in {"ok"} \cup VaultErrors

(***************************************************************************)
(* SpecBulk: one bulk call of obsidian_manage_notes with up to MaxItems    *)
(* items                                                                   *)
(***************************************************************************)
MaxItems == 2

BulkVault ==
  Put(Put(Put(Put(EmptyVault, Note, File("- [ ] a\nb")), Under(<<"d">>), Dir),
          Under(<<"d", "k.md">>), File("c")),
      Under(<<"e">>), Dir)

BulkPaths == {"n.md", "d/k.md", "e", "g/x.md", "../o"}

\* the lists of up to MaxItems items out of S
Lists(S) == UNION {[1..k -> S] : k \in 0..MaxItems}

PathItems == {BulkNoteItem(path, "", "") : path \in BulkPaths}

ContentItems ==
  {BulkNoteItem(path, content, "") : path \in BulkPaths, content \in {"", "a"}}

TaskItems ==
  {BulkNoteItem(path, "", task_identifier) :
     path \in BulkPaths, task_identifier \in {"", "1"}}

InitBulk == InitWith(BulkVault)

\* the tool is called once, on the vault as it stands
NextBulk ==
  \/ ncalls = 0 /\ CallBulkNotes(1, {"read", "delete"}, Lists(PathItems))
  \/ ncalls = 0
       /\ CallBulkNotes(1, {"create", "update", "append"}, Lists(ContentItems))
  \/ ncalls = 0 /\ CallBulkNotes(1, {"complete_task"}, Lists(TaskItems))
  \/ read_note_exists(1)
  \/ read_note_read(1)
  \/ create_note_exists(1)
  \/ create_note_parent(1)
  \/ create_note_makedirs(1)
  \/ update_note_exists(1)
  \/ update_note_read(1)
  \/ append_note_exists(1)
  \/ append_note_read(1)
  \/ delete_note_exists(1)
  \/ delete_note_remove(1)
  \/ complete_task_exists(1)
  \/ complete_task_read(1)
  \/ atomic_write_open(1)
  \/ atomic_write_write(1)
  \/ atomic_write_close(1)
  \/ atomic_write_replace(1)
  \/ atomic_write_except(1)
  \/ atomic_write_remove(1)

SpecBulk == InitBulk /\ [][NextBulk]_vars

\* the bulk call of p is over
BulkDone(p) ==
  call[p].tool = "bulk" /\ pc[p] = "idle" /\ res[p].kind # "none"

\* the errors name items of the list, in the order of the list
InItemOrder(errors, items) ==
  \E at \in [1..Len(errors) -> 1..Len(items)] :
    /\ \A k \in 1..Len(errors) : errors[k].path = items[at[k]].path
    /\ \A j, k \in 1..Len(errors) : j < k => at[j] < at[k]

\* C19: a bulk call with n >= 1 items attempts every item once, in list
\* order, whether or not earlier items failed; it returns with
\* affected_count + number of errors = n, the errors in item order and each
\* naming its item's path, and success true exactly when there is no error.
\* A bulk delete removes every listed note that was there.
C19_BulkBestEffort ==
  \A p \in Procs :
    (BulkDone(p) /\ call[p].bulk.items # <<>>) =>
      LET b == call[p].bulk
          n == Len(b.items)
          r == res[p].val
      IN  /\ b.attempted = [i \in 1..n |-> i]
          /\ res[p].kind = "ok"
          /\ r.affected_count + Len(r.errors) = n
          /\ InItemOrder(r.errors, b.items)
          /\ r.success = (r.errors = <<>>)
          /\ b.operation = "delete" =>
               \A i \in 1..n :
                 ~EscapesVault(b.items[i].path) =>
                   ~IsFile(fs, Leads(b.items[i].path))

(***************************************************************************)
(* SpecPrefs: one caller loads the preferences, and reads the preferences  *)
(* note, on vaults with and without the folder and the file                *)
(***************************************************************************)
MaxPrefsCalls == 3

PrefsNote == "_jasque/preferences.md"

WithFolder == Put(EmptyVault, folder_path, Dir)

PrefsContents ==
  {PREFERENCES_TEMPLATE, "---\ndate_format: E\n---\nc",
   "---\ntime_format: 12\n---\n", "c",
   "---\ndate_format: E\ntime_format: 1\n---\n", "---\na: b\nc\n---\nx"}

PrefsVaults ==
  {EmptyVault, WithFolder, Put(EmptyVault, folder_path, File("")),
   Put(WithFolder, prefs_path, Binary), Put(WithFolder, prefs_path, Dir)}
    \cup {Put(WithFolder, prefs_path, File(c)) : c \in PrefsContents}

InitPrefs == \E f \in PrefsVaults : InitWith(f)

NextPrefs ==
  \/ ncalls < MaxPrefsCalls /\ CallLoadPreferences(1)
  \/ ncalls < MaxPrefsCalls /\ CallReadNote(1, {PrefsNote})
  \/ load_preferences_exists(1)
  \/ load_preferences_folder(1)
  \/ load_preferences_read(1)
  \/ atomic_write_open(1)
  \/ atomic_write_write(1)
  \/ atomic_write_close(1)
  \/ atomic_write_replace(1)
  \/ atomic_write_except(1)
  \/ read_note_exists(1)
  \/ read_note_read(1)

SpecPrefs == InitPrefs /\ [][NextPrefs]_vars

\* the preferences that the template holds
FromTemplate ==
  LET post == frontmatter_loads(PREFERENCES_TEMPLATE)
  IN  VaultPreferences(model_validate(post.metadata), post.content)

\* a load_preferences that found the folder without the file has returned
FirstLoad ==
  /\ Done(1, "load_preferences")
  /\ IsDir(pre[1], folder_path) /\ ~Exists(pre[1], prefs_path)

\* what load_preferences has done, against the vault it was called on
LoadedAsFound ==
  Done(1, "load_preferences") =>
    LET before == pre[1]
    IN  /\ ~Exists(before, folder_path) =>
             res[1] = [kind |-> "ok", val |-> None] /\ fs = before
        /\ FirstLoad =>
             /\ res[1] = [kind |-> "ok", val |-> None]
             /\ fs = Put(before, prefs_path, File(PREFERENCES_TEMPLATE))
        /\ Exists(before, prefs_path) => fs = before
        /\ (IsFile(before, prefs_path) /\ before[prefs_path].kind = "file"
              /\ frontmatter_loads(before[prefs_path].content).ok) =>
             /\ res[1].kind = "ok"
             /\ res[1].val # None
             /\ res[1].val[1].additional_context =
                  frontmatter_loads(before[prefs_path].content).content

C21_PerFieldDefaults ==
  Done(1, "load_preferences") =>
    LET before == pre[1]
        readable == IsFile(before, prefs_path) /\ before[prefs_path].kind = "file"
        post == frontmatter_loads(before[prefs_path].content)
    IN  /\ res[1].kind = PreferencesParseError <=> (readable /\ ~post.ok)
        /\ (readable /\ post.ok) =>
             /\ res[1].kind = "ok" /\ res[1].val # None
             /\ \A k \in {"date_format", "time_format"} :
                  res[1].val[1].structured[k] =
                    IF DictHas(post.metadata, k)
                         /\ YamlStr(DictGet(post.metadata, k))
                    THEN DictGet(post.metadata, k)
                    ELSE UserPreferences[k]

(***************************************************************************)
(* SpecRace: two callers update the same note at the same time             *)
(***************************************************************************)
MaxRaceCalls == 2

InitRace == InitWith(Put(EmptyVault, Note, File("---\ntitle: X\n---\nb")))

NextRace ==
  \E p \in Procs :
    \/ ncalls < MaxRaceCalls
         /\ CallUpdateNote(p, {"n.md"}, {"cd", "ef"}, {TRUE, FALSE})
    \/ update_note_exists(p)
    \/ update_note_read(p)
    \/ atomic_write_open(p)
    \/ atomic_write_write(p)
    \/ atomic_write_close(p)
    \/ atomic_write_replace(p)
    \/ read_note_exists(p)
    \/ read_note_read(p)

SpecRace == InitRace /\ [][NextRace]_vars

\* p takes the replace step of its atomic write
Replaces(p) == pc[p] = "aw_replace" /\ pc'[p] # "aw_replace"

\* the content update_note of p is to leave in the note: the new content,
\* below the header of the note it read when the header is kept
Written(p, content) ==
  IF call[p].flag
  THEN /\ frontmatter_loads(content).content = call[p].arg
       /\ frontmatter_loads(content).metadata \in {<<>>, <<<<"title", "X">>>>}
  ELSE content = call[p].arg

\* C22: of two update_note calls running at once on one existing note none
\* raises, and the note always holds the complete content of the call that
\* replaced it last: a replace step puts that call's whole content there,
\* and no other step changes the note.
C22_LastWriterWins ==
  [][/\ \A p \in Procs :
          Replaces(p) =>
            /\ IsFile(fs', Note)
            /\ fs'[Note].content = loc[p].data
            /\ Written(p, fs'[Note].content)
     /\ (\A p \in Procs : ~Replaces(p)) => fs'[Note] = fs[Note]
     /\ \A p \in Procs :
          (pc'[p] = "idle" /\ res'[p].kind # "none") => res'[p].kind = "ok"]_vars

\* both calls are over; the second caller read back its own content before
\* the first caller's replace put the other content in the note
C22_Witness ==
  /\ Done(1, "update_note") /\ Done(2, "update_note")
  /\ res[1].kind = "ok" /\ res[2].kind = "ok"
  /\ call[1].arg = "ef" /\ call[2].arg = "cd"
  /\ res[2].val.content = "cd"
  /\ fs[Note].content = "ef"

(***************************************************************************)
(* SpecFail: one caller writes notes while writes and replaces fail        *)
(***************************************************************************)
MaxFailCalls == 2

FailVault ==
  Put(Put(Put(EmptyVault, Note, File("ab\n- [ ] t")), Under(<<"e">>), Dir),
      Under(<<"e", "k.md">>), File("c"))

FailPaths == {"n.md", "e", "g/x.md", "n.md/x.md", ""}

InitFail == InitWith(FailVault)

NextFail ==
  \/ ncalls < MaxFailCalls /\ CallCreateNote(1, FailPaths, {"cd"}, {""})
  \/ ncalls < MaxFailCalls
       /\ CallUpdateNote(1, FailPaths, {"cd"}, {TRUE, FALSE})
  \/ ncalls < MaxFailCalls /\ CallAppendNote(1, FailPaths, {"cd"})
  \/ ncalls < MaxFailCalls /\ CallCompleteTask(1, FailPaths, {"1"})
  \/ create_note_exists(1)
  \/ create_note_parent(1)
  \/ create_note_makedirs(1)
  \/ update_note_exists(1)
  \/ update_note_read(1)
  \/ append_note_exists(1)
  \/ append_note_read(1)
  \/ complete_task_exists(1)
  \/ complete_task_read(1)
  \/ atomic_write_open(1)
  \/ atomic_write_write(1)
  \/ atomic_write_close(1)
  \/ atomic_write_replace(1)
  \/ atomic_write_fails(1)
  \/ atomic_write_except(1)
  \/ atomic_write_remove(1)
  \/ read_note_exists(1)
  \/ read_note_read(1)

SpecFail == InitFail /\ [][NextFail]_vars

\* the call of p went into _atomic_write, which raised
WriteFailed(p) ==
  /\ pc[p] = "idle" /\ res[p].kind = OSError
  /\ call[p].op \in {"create_note", "update_note", "append_note",
                     "complete_task"}

Walking(p, ops) ==
  call[p].op \in ops /\ pc[p] \in {"wk_list", "wk_stat", "wk_read"}

\* C24 as it is stated, find_by_name included: once the results collected
\* have reached the limit, the walk lists no directory, stats no entry and
\* reads no file.
C24_EarlyStopEvery ==
  \A p \in Procs :
    Walking(p, {"search_text", "find_by_tag", "find_by_name", "get_backlinks",
                "list_tasks"}) =>
      Len(loc[p].out) < call[p].limit

\* C24: in search_text, find_by_tag, get_backlinks and list_tasks, once the
\* results collected have reached the limit the walk lists no directory,
\* stats no entry and reads no file before it returns; with limit 0 it lists
\* no directory at all.
C24_EarlyStop ==
  \A p \in Procs :
    Walking(p, {"search_text", "find_by_tag", "get_backlinks", "list_tasks"}) =>
      Len(loc[p].out) < call[p].limit

\* a search with limit 1 has returned one result from a vault where three
\* notes hold the query: it stopped with two matching notes unread
C24_Witness ==
  /\ pc[1] = "idle" /\ call[1].tool = "query" /\ res[1].kind = "ok"
  /\ call[1].op = "search_text" /\ call[1].arg = "a"
  /\ call[1].limit = 1
  /\ Len(res[1].val.results) = 1
  /\ Cardinality(Matching(fs, call[1])) = 3

(***************************************************************************)
(* SpecRelocate: one caller reads, renames and moves notes                 *)
(***************************************************************************)
MaxRelocateCalls == 2

RelocateVault ==
  Put(Put(Put(Put(EmptyVault, Note, File("---\ntitle: X\n---\nb #t")),
              Under(<<"d">>), Dir),
          Under(<<"d", "k.md">>), File("c")),
      Under(<<"e.md">>), Dir)

RelocateSources == {"n.md", "d/k.md", "./n.md", "x.md", "e.md", "d"}

RelocateDestinations == {"m.md", "d/m.md", "g/h/m.md", "d/k.md", "m", "n.md/m"}

InitRelocate == InitWith(RelocateVault)

NextRelocate ==
  \/ ncalls < MaxRelocateCalls
       /\ CallReadNote(1, RelocateSources \cup RelocateDestinations)
  \/ ncalls < MaxRelocateCalls
       /\ CallRename(1, RelocateSources, RelocateDestinations)
  \/ ncalls < MaxRelocateCalls
       /\ CallMove(1, RelocateSources, RelocateDestinations)
  \/ rename_source(1)
  \/ rename_destination(1)
  \/ move_parent(1)
  \/ move_makedirs(1)
  \/ rename_rename(1)
  \/ rename_isfile(1)
  \/ read_note_exists(1)
  \/ read_note_read(1)

SpecRelocate == InitRelocate /\ [][NextRelocate]_vars

\* the directories above path t, up to the vault root, that f does not hold
MissingParents(f, t) == {q \in Prefixes(Parent(t)) : q \notin DOMAIN f}

\* C25: after a successful rename or move of a note the source path is
\* absent, the destination holds exactly the content the source held, every
\* other file and folder is as it was, and the call returns under the new
\* path the body read_note returned for the source before; move has created
\* exactly the missing parent directories of the destination, rename none.
C25_RelocateWithoutLoss ==
  /\ (Done(1, "read_note") /\ res[1].kind = "ok") =>
       res[1].val = NoteContent(call[1].path, Target(1), fs[Target(1)].content)
  /\ \A op \in {"rename", "move"} :
       (Done(1, op) /\ res[1].kind = "ok" /\ IsFile(pre[1], Target(1))) =>
         LET src     == Target(1)
             dst     == validate_path(call[1].arg).val
             before  == pre[1]
             created == DOMAIN fs \ (DOMAIN before \cup {dst})
         IN  /\ ~Exists(fs, src)
             /\ fs[dst] = before[src]
             /\ ~Exists(before, dst)
             /\ \A q \in DOMAIN before \ {src} :
                  Exists(fs, q) /\ fs[q] = before[q]
             /\ created = IF op = "move" THEN MissingParents(before, dst) ELSE {}
             /\ \A q \in created : IsDir(fs, q)
             /\ res[1].val.path = call[1].arg
             /\ res[1].val.content =
                  NoteContent(call[1].path, src, before[src].content).content
             /\ res[1].val =
                  NoteContent(call[1].arg, dst, before[src].content)

\* the note with a header has been moved below two folders that did not
\* exist; they exist now and the call returned the body of the note
C25_Witness ==
  /\ Done(1, "move") /\ res[1].kind = "ok"
  /\ call[1].path = "n.md" /\ call[1].arg = "g/h/m.md"
  /\ ~Exists(pre[1], Under(<<"g">>))
  /\ IsDir(fs, Under(<<"g", "h">>))
  /\ res[1].val.content = "b #t"

(***************************************************************************)
(* SpecName: one caller looks notes up by name                             *)
(***************************************************************************)
MaxNameCalls == 1

NameVault ==
  Put(Put(Put(Put(Put(Put(EmptyVault,
    Under(<<"a.md">>), File("x")),
    Under(<<"ba.md">>), File("# k")),
    Under(<<"d">>), Dir),
    Under(<<"d", "a.md">>), File("---\ntitle: A\n---\n")),
    Under(<<"d", "k.md">>), File("---\ntitle: b_A\n---\n")),
    Under(<<"d", "j.md">>), File("y"))

NameQueries == {"a", "A.md", "B-a", "k", "z"}

InitName == InitWith(NameVault)

NextName ==
  \/ ncalls < MaxNameCalls
       /\ CallFindByName(1, NameQueries, {"", "d"}, 0..MaxLimit)
  \/ walk_listdir(1)
  \/ walk_stat(1)
  \/ walk_read(1)

SpecName == InitName /\ [][NextName]_vars

\* the tier of note q for a query: 1 when the normalized stem of its
\* filename is the normalized query, 2 when it only contains it, 3 when only
\* its title holds it, 0 when the note does not match
Tier(f, q, query) ==
  LET wanted == _normalize_name(RemoveSuffix(query, ".md"))
      stem   == _normalize_name(RemoveSuffix(Name(q), ".md"))
      title  == _normalize_name(_get_note_title(q, f[q].content))
  IN  IF stem = wanted THEN 1
      ELSE IF Contains(stem, wanted) THEN 2
      ELSE IF Contains(title, wanted) THEN 3
      ELSE 0

\* note a is ranked no later than note b: a lower tier, or the same tier
\* and a path that is not longer
RankedBefore(f, a, b, query) ==
  \/ Tier(f, a, query) < Tier(f, b, query)
  \/ /\ Tier(f, a, query) = Tier(f, b, query)
     /\ Len(RelStr(a)) <= Len(RelStr(b))

\* C26: find_by_name returns each matching note at most once, exact
\* filename matches before filename-contains matches before title matches,
\* each tier in ascending order of path length, and the list is the first
\* `limit` elements of that ranking: no note left out is ranked strictly
\* before a note returned, and none is left out below the limit.
C26_NameRanking ==
  (Done(1, "find_by_name") /\ res[1].kind = "ok") =>
    LET r       == res[1].val
        query   == call[1].arg
        notes   == {q \in NotesBelow(fs, Leads(call[1].path)) :
                      fs[q].kind = "file" /\ Tier(fs, q, query) > 0}
        at(i)   == CHOOSE q \in DOMAIN fs : RelStr(q) = r[i].path
        found   == {at(i) : i \in 1..Len(r)}
    IN  /\ \A i \in 1..Len(r) :
             \E q \in notes : RelStr(q) = r[i].path
        /\ \A i, j \in 1..Len(r) : i # j => r[i].path # r[j].path
        /\ \A i, j \in 1..Len(r) :
             i < j => RankedBefore(fs, at(i), at(j), query)
        /\ Len(r) = Min(Cardinality(notes), call[1].limit)
        /\ \A m \in notes \ found :
             \A q \in found : RankedBefore(fs, q, m, query)

\* the query "a" with limit 3 returned the two notes named a, the shorter
\* path first, and then the note whose name contains a; the note matched by
\* its title was cut off
C26_Witness ==
  /\ Done(1, "find_by_name") /\ res[1].kind = "ok"
  /\ call[1].arg = "a" /\ call[1].path = "" /\ call[1].limit = 3
  /\ Len(res[1].val) = 3
  /\ res[1].val[1].path = "a.md"
  /\ res[1].val[2].path = "d/a.md"
  /\ res[1].val[3].path = "ba.md"
  /\ Tier(fs, Under(<<"d", "k.md">>), "a") = 3

(***************************************************************************)
(* SpecOrphan: one caller whose writes can be cancelled, and what the      *)
(* temporary files left behind do to later calls                           *)
(***************************************************************************)
MaxOrphanCalls == 3

OrphanVault ==
  Put(Put(EmptyVault, Note, File("a")), Under(<<"e">>), Dir)

InitOrphan == InitWith(OrphanVault)

NextOrphan ==
  \/ ncalls < MaxOrphanCalls
       /\ CallCreateNote(1, {"e/k.md", "n.md"}, {"cd"}, {""})
  \/ ncalls < MaxOrphanCalls
       /\ CallDeleteFolder(1, {"e", "x"}, {TRUE, FALSE})
  \/ ncalls < MaxOrphanCalls /\ CallListStructure(1, {"", "e"})
  \/ cancel(1)
  \/ create_note_exists(1)
  \/ create_note_parent(1)
  \/ atomic_write_open(1)
  \/ atomic_write_write(1)
  \/ atomic_write_close(1)
  \/ atomic_write_replace(1)
  \/ read_note_exists(1)
  \/ read_note_read(1)
  \/ delete_folder_exists(1)
  \/ delete_folder_isdir(1)
  \/ delete_folder_listdir(1)
  \/ delete_folder_rmtree(1)
  \/ delete_folder_rmdir(1)
  \/ list_structure_exists(1)
  \/ list_structure_listdir(1)
  \/ list_structure_isdir(1)

SpecOrphan == InitOrphan /\ [][NextOrphan]_vars

\* the vault f without its temporary files
Clean(f) == [q \in {r \in DOMAIN f : ~IsTemp(r)} |-> f[q]]

\* how delete_folder(t, force) ends on the vault f
DeleteOutcome(f, t, force) ==
  IF ~IsDir(f, t) THEN FolderNotFoundError
  ELSE IF Listdir(f, t) # {} /\ ~force THEN FolderNotEmptyError
  ELSE "ok"

\* C27: a temporary file left behind by a cancelled atomic write is removed
\* by the next atomic write to the same target, or, while it remains, later
\* operations end as they would on the same vault without it: a write that
\* has succeeded leaves no temporary file of its target, list_structure
\* shows none, and delete_folder succeeds or fails as on the vault without
\* the temporary files.
C27_OrphanHarmless ==
  /\ (Done(1, "delete_folder") /\ res[1].kind # Cancelled) =>
       res[1].kind = DeleteOutcome(Clean(pre[1]), Target(1), call[1].flag)
  /\ (Done(1, "create_note") /\ res[1].kind = "ok") =>
       \A q \in DOMAIN fs :
         ~(IsTemp(q) /\ Parent(q) = Parent(Target(1))
             /\ StartsWith(Name(q), Stem(Name(Target(1)))))

\* C28: whatever the calls of delete_folder, rename, move and delete_note and
\* their arguments, the empty path and `.` included, the directory VaultRoot
\* still exists: only strict descendants of it are removed or relocated.
C28_RootSurvives ==
  /\ IsDir(fs, VaultRoot)
  /\ \A p \in Procs :
       (pc[p] = "idle" /\ res[p].kind = "ok"
          /\ call[p].op \in {"delete_folder", "rename", "move"}) =>
         Target(p) # VaultRoot

(***************************************************************************)
(* SpecAppendRace: two callers append to the same note at the same time    *)
(***************************************************************************)
MaxAppendRaceCalls == 2

AppendRaceContents == {"ab", "ab\n", ""}

InitAppendRace ==
  \E s \in AppendRaceContents : InitWith(Put(EmptyVault, Note, File(s)))

NextAppendRace ==
  \E p \in Procs :
    \/ ncalls < MaxAppendRaceCalls
         /\ CallAppendNote(p, {"n.md"}, {"cd", "ef"})
    \/ append_note_exists(p)
    \/ append_note_read(p)
    \/ atomic_write_open(p)
    \/ atomic_write_write(p)
    \/ atomic_write_close(p)
    \/ atomic_write_replace(p)
    \/ read_note_exists(p)
    \/ read_note_read(p)

SpecAppendRace == InitAppendRace /\ [][NextAppendRace]_vars

\* the sequential rule of append: a newline in between unless s is empty or
\* ends with one
Joined(s, a) ==
  IF s = "" \/ Ch(s, Len(s)) = "\n" THEN s \o a ELSE s \o "\n" \o a

\* each of the two callers has made one call of append_note, and both calls
\* are over
BothAppended ==
  /\ ncalls = 2
  /\ Done(1, "append_note") /\ Done(2, "append_note")

\* the content of the note when the earlier of the two calls started
Started ==
  LET s1 == pre[1][Note].content
      s2 == pre[2][Note].content
  IN  IF Len(s1) <= Len(s2) THEN s1 ELSE s2

\* C29: when two append_note calls with contents a and b have run on the
\* same note whose content was s, both have returned without error and the
\* note holds append(s,a), append(s,b), append(append(s,a),b) or
\* append(append(s,b),a); it starts with s and ends with a or b.
C29_AppendOutcomes ==
  BothAppended =>
    LET s == Started
        a == call[1].arg
        b == call[2].arg
        c == fs[Note].content
    IN  /\ res[1].kind = "ok" /\ res[2].kind = "ok"
        /\ fs[Note].kind = "file"
        /\ c \in {Joined(s, a), Joined(s, b), Joined(Joined(s, a), b),
                  Joined(Joined(s, b), a)}
        /\ StartsWith(c, s)
        /\ EndsWith(c, a) \/ EndsWith(c, b)

\* both callers read "ab" before either replaced the note: the append of
\* the first caller is lost
C29_Witness ==
  /\ BothAppended
  /\ Started = "ab"
  /\ call[1].arg = "cd" /\ call[2].arg = "ef"
  /\ fs[Note].content = "ab\nef"
  /\ res[1].kind = "ok" /\ res[1].val.content = "ab\ncd"

(***************************************************************************)
(* SpecTyped: two callers run the operations that write, at the same time  *)
(***************************************************************************)
MaxTypedCalls == 2

TypedVault ==
  Put(Put(Put(Put(EmptyVault, Note, File("ab\n- [ ] t")),
              Under(<<"b.md">>), Binary),
          Under(<<"e">>), Dir),
      Under(<<"e", "k.md">>), File("c"))

TypedPaths == {"n.md", "b.md", "e", "x.md"}

InitTyped == InitWith(TypedVault)

NextTyped ==
  \E p \in Procs :
    \/ ncalls < MaxTypedCalls
         /\ CallCreateNote(p, {"n.md", "g/x.md"}, {"cd"}, {""})
    \/ ncalls < MaxTypedCalls /\ CallUpdateNote(p, TypedPaths, {"cd"}, {TRUE})
    \/ ncalls < MaxTypedCalls /\ CallAppendNote(p, TypedPaths, {"cd"})
    \/ ncalls < MaxTypedCalls /\ CallDeleteNote(p, {"n.md", "x.md"})
    \/ ncalls < MaxTypedCalls
         /\ CallCompleteTask(p, {"n.md", "x.md"}, {"1", "9"})
    \/ ncalls < MaxTypedCalls /\ CallCreateFolder(p, {"e", "g"})
    \/ ncalls < MaxTypedCalls /\ CallRename(p, TypedPaths, {"n.md", "c.md"})
    \/ ncalls < MaxTypedCalls /\ CallMove(p, TypedPaths, {"n.md", "g/c.md"})
    \/ ncalls < MaxTypedCalls /\ CallDeleteFolder(p, {"e", "g"}, {TRUE, FALSE})
    \/ create_note_exists(p)
    \/ create_note_parent(p)
    \/ create_note_makedirs(p)
    \/ update_note_exists(p)
    \/ update_note_read(p)
    \/ append_note_exists(p)
    \/ append_note_read(p)
    \/ delete_note_exists(p)
    \/ delete_note_remove(p)
    \/ complete_task_exists(p)
    \/ complete_task_read(p)
    \/ atomic_write_open(p)
    \/ atomic_write_write(p)
    \/ atomic_write_close(p)
    \/ atomic_write_replace(p)
    \/ atomic_write_except(p)
    \/ atomic_write_remove(p)
    \/ read_note_exists(p)
    \/ read_note_read(p)
    \/ create_folder_exists(p)
    \/ create_folder_makedirs(p)
    \/ rename_source(p)
    \/ rename_destination(p)
    \/ move_parent(p)
    \/ move_makedirs(p)
    \/ rename_rename(p)
    \/ rename_isfile(p)
    \/ delete_folder_exists(p)
    \/ delete_folder_isdir(p)
    \/ delete_folder_listdir(p)
    \/ delete_folder_rmtree(p)
    \/ delete_folder_rmdir(p)

SpecTyped == InitTyped /\ [][NextTyped]_vars

\* C30: whenever create_note, update_note, append_note, delete_note,
\* complete_task, create_folder, rename, move or delete_folder has raised a
\* VaultError, that call has created, modified and removed nothing in the
\* vault, whatever the other caller did meanwhile.
C30_TypedFailuresWriteNothing ==
  \A p \in Procs :
    (pc[p] = "idle" /\ res[p].kind \in VaultErrors
       /\ call[p].op \in {"create_note", "update_note", "append_note",
                          "delete_note", "complete_task", "create_folder",
                          "rename", "move", "delete_folder"}) =>
      ~wrote[p]

====
